---------------------------- MODULE Spec2Model ----------------------------
(***************************************************************************)
(* A model of the northerntech-frontend weather dashboard:                 *)
(*   - the favorite-cities service and the weather data client             *)
(*     (src/src/services/weatherApi.js),                                   *)
(*   - the Weather page: search history, primary fetches, debounced        *)
(*     suggestion search, keyboard navigation, geolocation fallback,       *)
(*     five-day forecast and rain chance,                                  *)
(*   - the stations view and the weather icons                             *)
(*     (the last two in src/unnamed/part_000),                             *)
(*   - the stations storage helper (src/src/utils/storage.js).             *)
(*                                                                         *)
(* Each part has its own specification (SpecFav, SpecHistory, SpecWeather, *)
(* SpecDebounce, SpecDebounceFair, SpecGeo, SpecClient, SpecStations,      *)
(* SpecPrimary, SpecRace, SpecStorage, SpecKeys, SpecForecast, SpecIcons,  *)
(* SpecStationStore); a part's actions leave the other parts' state        *)
(* unchanged.                                                              *)
(***************************************************************************)
EXTENDS Integers, Sequences, FiniteSets, TLC

VARIABLES
    favStore,   \* localStorage["favorite-cities"]: the raw stored document
    favCall     \* the last call of the favorites service and how it ended

\* The stations storage helper (utils/storage.js).
VARIABLES
    stationsItem,   \* localStorage["weather_stations"]: the raw stored document
    stationCall     \* the last call of the helper and how it ended

\* The Weather page (function Weather, part_000 lines 511-526) and the two
\* localStorage keys it owns.
VARIABLES
    histStore,          \* localStorage["weather-search-history"]
    snapStore,          \* localStorage["weather-current-data"]
    mounted,            \* the mount effect (loadInitialData) has run
    cityName,           \* useState(''): the text of the search input
    loading,            \* useState(false)
    error,              \* useState(null)
    weatherData,        \* useState(null)
    searchHistory,      \* useState([])
    showHistory,        \* useState(false): the dropdown is open
    searchSuggestions,  \* useState([])
    isSearching,        \* useState(false)
    isActivelyTyping,   \* useState(false)
    gettingLocation,    \* useState(false)
    highlightedIndex,   \* useState(-1)
    pendingDefault,     \* getWeatherByCity('New York') calls in flight
    pendingSearch,      \* getWeatherByCity(term) calls of handleSearch in flight
    recent,             \* history variable: the identifiers added since the
                        \* history was last empty, most recently added first
    lastFetched,        \* history variable: the result of the weather fetch
                        \* of the page that most recently resolved
    suggestionFlights   \* getWeatherByCoordinates calls of
                        \* handleSuggestionClick in flight: their suggestions

\* History variable of the search-history specification: every identifier
\* handed to addToSearchHistory, in call order.
VARIABLE addLog

\* The debounced suggestion search of the page's search field
\* (debouncedSearchCities, part_000 lines 636-660).
VARIABLES
    hasApiKey,          \* weatherApi.js line 1: API_KEY is not empty
    timers,             \* the browser's pending timeouts set by the field
    quietLeft,          \* time left of the quiet period of the last keystroke
    suggestFlights,     \* searchCities requests in flight, oldest first
    justTyped,          \* history variable: the last step was a keystroke
    burstKeys,          \* history variable: keystrokes of the current burst
    burstFetches,       \* history variable: searchCities calls of the burst
    burstQuery,         \* history variable: the query of the last such call
    latestDone,         \* history variable: the most recently issued
                        \* searchCities call has delivered its result
    shownFromResponse,  \* history variable: searchSuggestions was last set
                        \* by a result (not by a clear)
    shownLatest         \* history variable: ... by the result of the most
                        \* recently issued searchCities call

\* One invocation of handleCurrentLocation (part_000 lines 777-871).
VARIABLES
    geoSupported,   \* navigator.geolocation is present
    geoPc,          \* where the invocation waits: "idle", "attempt",
                    \* "reverse" or "weather"
    attempts,       \* the getCurrentPosition calls of the invocation, in the
                    \* order issued, each with its options and its outcome
    position,       \* the local `position` (line 807)
    lastError,      \* the local `lastError` (line 808)
    locationInfo,   \* the local `locationInfo` (line 827)
    caughtError,    \* history variable: `err` of the catch at line 857
    reverseResult,  \* history variable: how the reverse geocoding request
                    \* of the invocation settled
    geoRequests     \* history variable: the HTTP requests the invocation
                    \* has issued, in order

\* One call of an operation of the weather data client (weatherApi.js).
VARIABLES
    clientCall,     \* the operation called and its arguments
    clientPc,       \* "idle", "geocoding" (awaiting the geocoding request),
                    \* "weather" (awaiting Promise.all) or "done"
    clientHttp,     \* the HTTP requests the call has issued, in order
    geocodingReq,   \* the geocoding request: "none", "pending" or what
                    \* requestJson made of its response
    currentReq,     \* the current-conditions request: "none", "pending" or
                    \* what requestJson made of its response
    forecastReq,    \* the same for the forecast request
    clientLocation, \* the location getCoordinatesFromCity returned
    clientResult,   \* how the call settled: a value or an error
    clientResponses \* the responses to the call's requests, as they came in

\* The stations view (part_000 lines 116-268).
VARIABLES
    stMounted,      \* the mount effect has run
    stFavorites,    \* favoriteCities
    stWeather,      \* cityWeatherData: a weather or null for an id
    stLoading,      \* loading
    stError,        \* error
    stLoad,         \* the entries of loadFavoriteCities' Promise.all, one
                    \* for each favorite found, pending or settled (with,
                    \* as history, how its getWeatherData settled)
    stAdds,         \* the added cities whose handleAddCity awaits the
                    \* weather
    stSearchOpen,   \* the search field lists suggestions
    nextId,         \* the ids given so far are 1..nextId-1
    stAdded         \* history variable: the added cities whose fetch has
                    \* settled, each with whether it succeeded

\* What the Weather page derives for display from weatherData.weather
\* (part_000 lines 906-995) and from an icon code (lines 31-49).
VARIABLES
    daily,            \* weatherData.weather.daily: the forecast entries
    conditions,       \* weatherData.weather.current
    clock,            \* Date.now() when the memos are computed, in hours
    tz,               \* the browser's offset from UTC, in hours
    hourlyForecast,   \* useMemo (lines 873-894)
    fiveDayForecast,  \* useMemo (lines 906-960)
    rainChance,       \* useMemo (lines 971-995)
    iconCode,         \* an icon code handed to getWeatherIconPath
    iconPath          \* the path it returned

storeVars == <<stationsItem, stationCall>>

favVars == <<favStore, favCall, storeVars>>

viewVars == <<daily, conditions, clock, tz, hourlyForecast, fiveDayForecast,
              rainChance, iconCode, iconPath>>

stVars == <<stMounted, stFavorites, stWeather, stLoading, stError, stLoad,
            stAdds, stSearchOpen, nextId, stAdded>>

clientVars == <<clientCall, clientPc, clientHttp, geocodingReq, currentReq,
                forecastReq, clientLocation, clientResult, clientResponses>>

geoVars == <<geoSupported, geoPc, attempts, position, lastError, locationInfo,
             caughtError, reverseResult, geoRequests>>

dbVars == <<hasApiKey, timers, quietLeft, suggestFlights, justTyped, burstKeys,
            burstFetches, burstQuery, latestDone, shownFromResponse,
            shownLatest>>

pageVars == <<histStore, snapStore, mounted, cityName, loading, error,
              weatherData, searchHistory, showHistory, searchSuggestions,
              isSearching, isActivelyTyping, gettingLocation, highlightedIndex,
              pendingDefault, pendingSearch, recent,
              lastFetched, suggestionFlights>>

vars == <<favVars, pageVars, addLog, dbVars, geoVars, clientVars,
          stVars, viewVars>>

(***************************************************************************)
(* General helpers on sequences.                                           *)
(***************************************************************************)

\* Array.prototype.filter with the predicate "x # v".
RECURSIVE Without(_, _)
Without(s, v) ==
    IF s = <<>> THEN <<>>
    ELSE IF Head(s) = v THEN Without(Tail(s), v)
         ELSE <<Head(s)>> \o Without(Tail(s), v)

\* Array.prototype.slice(0, n).
Take(s, n) == SubSeq(s, 1, IF Len(s) < n THEN Len(s) ELSE n)

Range(s) == {s[i] : i \in 1..Len(s)}

NoDuplicates(s) == \A i, j \in 1..Len(s) : s[i] = s[j] => i = j

(***************************************************************************)
(* Favorite cities: weatherApi.js, lines 197-291.                          *)
(***************************************************************************)

MaxCoord == 1       \* latitudes and longitudes are 0..MaxCoord
NumIds == 2         \* ids that Date.now() and Math.random() can produce
MaxFavorites == 2   \* the model stops adding at this many favorites

Lats == 0..MaxCoord
Lons == 0..MaxCoord

\* What searchCities hands to addFavoriteCity: numbers parsed from JSON.
CityData == [lat : Lats, lon : Lons]

Ids == 1..NumIds

\* The stored document under the key: absent (getItem returns null), a text
\* that JSON.parse rejects, or the text of an array of favorite cities.
Absent == [kind |-> "absent", json |-> <<>>]
Unparsable == [kind |-> "unparsable", json |-> <<>>]

\* JSON.stringify of a list whose entries hold finite numbers only: every
\* entry and its order survive, so the document is the list itself.
JSONStringify(list) == [kind |-> "array", json |-> list]

\* getFavoriteCities: [] for an absent key or when JSON.parse throws.
getFavoriteCities(store) ==
    IF store.kind = "array" THEN store.json ELSE <<>>

\* A plausible slip in the duplicate test: lon compared with the new lat.
MutCityExistsTypo(favorites, cityData) ==
    \E i \in 1..Len(favorites) :
        favorites[i].lat = cityData.lat /\ favorites[i].lon = cityData.lat

\* The duplicate test of addFavoriteCity: favorites.some(lat === && lon ===).

CityExists(favorites, cityData) ==
    \E i \in 1..Len(favorites) :
        favorites[i].lat = cityData.lat /\ favorites[i].lon = cityData.lon

\* A plausible slip: the catch block of saveFavoriteCities does not rethrow.
MutSaveSwallowsFailure(store, cities, setItemOk) ==
    IF setItemOk
    THEN [store |-> JSONStringify(cities), outcome |-> "ok", wrote |-> TRUE]
    ELSE [store |-> store, outcome |-> "ok", wrote |-> FALSE]

\* saveFavoriteCities: setItem either stores the document or throws (quota),
\* in which case the stored document stays and "Failed to save" is raised.
saveFavoriteCities(store, cities, setItemOk) ==
    IF setItemOk
    THEN [store |-> JSONStringify(cities), outcome |-> "ok", wrote |-> TRUE]
    ELSE [store |-> store, outcome |-> "save_failed", wrote |-> FALSE]

\* A plausible slip: the new city is pushed and saved before the test.
MutAddSavesFirst(store, cityData, id, setItemOk) ==
    LET favorites == getFavoriteCities(store)
        newCity == [id |-> id, lat |-> cityData.lat, lon |-> cityData.lon]
        saved == saveFavoriteCities(store, Append(favorites, newCity), setItemOk)
    IN  IF CityExists(favorites, cityData)
        THEN [saved EXCEPT !.outcome = "already"]
        ELSE saved

\* addFavoriteCity(cityData); id is the generated `${Date.now()}_${random}`.
addFavoriteCity(store, cityData, id, setItemOk) ==
    LET favorites == getFavoriteCities(store)
        newCity == [id |-> id, lat |-> cityData.lat, lon |-> cityData.lon]
    IN  IF CityExists(favorites, cityData)
        THEN [store |-> store, outcome |-> "already", wrote |-> FALSE]
        ELSE saveFavoriteCities(store, Append(favorites, newCity), setItemOk)

RECURSIVE FilterOutId(_, _)
\* A plausible slip: only the first entry with the id is taken out.
MutFilterFirstOnly(favorites, cityId) ==
    LET hits == {i \in 1..Len(favorites) : favorites[i].id = cityId} IN
    IF hits = {} THEN favorites
    ELSE LET first == CHOOSE i \in hits : \A j \in hits : i <= j
         IN  SubSeq(favorites, 1, first - 1)
                 \o SubSeq(favorites, first + 1, Len(favorites))

FilterOutId(favorites, cityId) ==
    IF favorites = <<>> THEN <<>>
    ELSE IF Head(favorites).id = cityId
         THEN FilterOutId(Tail(favorites), cityId)
         ELSE <<Head(favorites)>> \o FilterOutId(Tail(favorites), cityId)

\* removeFavoriteCity(cityId).
removeFavoriteCity(store, cityId, setItemOk) ==
    LET favorites == getFavoriteCities(store)
        filtered == FilterOutId(favorites, cityId)
    IN  IF Len(filtered) = Len(favorites)
        THEN [store |-> store, outcome |-> "not_found", wrote |-> FALSE]
        ELSE saveFavoriteCities(store, filtered, setItemOk)

\* clearAllFavorites: localStorage.removeItem.
clearAllFavorites(store) == Absent

(***************************************************************************)
(* The stations storage helper: utils/storage.js.                          *)
(***************************************************************************)

MaxStations == 2    \* the model stops adding at this many stored stations

StationNames == {"x", "y"}

\* A station object as stored: its id and what else it holds.
Stations == [id : Ids, name : StationNames]

\* A stored text that parses to something that is no array.
NotAnArray == [kind |-> "object", json |-> <<>>]

\* readStations (lines 3-13): no item, a text JSON.parse rejects and a
\* parsed value that is no array all read as the empty list.
readStations(item) == IF item.kind = "array" THEN item.json ELSE <<>>

\* addStation(station) (lines 27-31); setItem can throw, and nothing catches.
addStation(item, station, setItemOk) ==
    LET stations == Append(readStations(item), station) IN
    IF setItemOk
    THEN [store |-> JSONStringify(stations), outcome |-> "ok"]
    ELSE [store |-> item, outcome |-> "setItem_threw"]

\* A plausible slip: the helper refuses an id it does not find, as
\* removeFavoriteCity does.
MutRemoveStationThrows(item, stationId, setItemOk) ==
    LET stations == readStations(item)
        filtered == SelectSeq(stations, LAMBDA station : station.id # stationId)
    IN  IF Len(filtered) = Len(stations)
        THEN [store |-> item, outcome |-> "not_found"]
        ELSE IF setItemOk
        THEN [store |-> JSONStringify(filtered), outcome |-> "ok"]
        ELSE [store |-> item, outcome |-> "setItem_threw"]

\* removeStation(stationId) (lines 37-41).
removeStation(item, stationId, setItemOk) ==
    LET stations == readStations(item)
        filtered == SelectSeq(stations, LAMBDA station : station.id # stationId)
    IN  IF setItemOk
        THEN [store |-> JSONStringify(filtered), outcome |-> "ok"]
        ELSE [store |-> item, outcome |-> "setItem_threw"]

NoStationCall == [op |-> "none", id |-> 0, outcome |-> "none"]

StationStoreIdle == stationsItem = Absent /\ stationCall = NoStationCall

StoreFrame ==
    UNCHANGED <<favStore, favCall, pageVars, addLog, dbVars, geoVars,
                clientVars, stVars, viewVars>>

AddStation ==
    \E station \in Stations, setItemOk \in BOOLEAN :
        LET r == addStation(stationsItem, station, setItemOk) IN
        /\ Len(readStations(stationsItem)) < MaxStations
        /\ stationsItem' = r.store
        /\ stationCall' = [op |-> "add", id |-> station.id,
                           outcome |-> r.outcome]
        /\ StoreFrame

RemoveStation ==
    \E stationId \in Ids, setItemOk \in BOOLEAN :
        LET r == removeStation(stationsItem, stationId, setItemOk) IN
        /\ stationsItem' = r.store
        /\ stationCall' = [op |-> "remove", id |-> stationId,
                           outcome |-> r.outcome]
        /\ StoreFrame

\* The lists the helper can have stored: up to MaxStations stations, two
\* with one id among them.
StationStoreLists == UNION {[1..k -> Stations] : k \in 0..MaxStations}

NoCall == [op |-> "none", lat |-> 0, lon |-> 0, id |-> 0,
           outcome |-> "none", wrote |-> FALSE]

FavFrame ==
    UNCHANGED <<storeVars, pageVars, addLog, dbVars, geoVars, clientVars,
                stVars, viewVars>>

AddFavoriteCity ==
    \E cityData \in CityData, id \in Ids, setItemOk \in BOOLEAN :
        LET r == addFavoriteCity(favStore, cityData, id, setItemOk) IN
        /\ \/ Len(getFavoriteCities(favStore)) < MaxFavorites
           \/ CityExists(getFavoriteCities(favStore), cityData)
        /\ favStore' = r.store
        /\ favCall' = [op |-> "add", lat |-> cityData.lat, lon |-> cityData.lon,
                       id |-> 0, outcome |-> r.outcome, wrote |-> r.wrote]
        /\ FavFrame

RemoveFavoriteCity ==
    \E cityId \in Ids, setItemOk \in BOOLEAN :
        LET r == removeFavoriteCity(favStore, cityId, setItemOk) IN
        /\ favStore' = r.store
        /\ favCall' = [op |-> "remove", lat |-> 0, lon |-> 0, id |-> cityId,
                       outcome |-> r.outcome, wrote |-> r.wrote]
        /\ FavFrame

ClearAllFavorites ==
    /\ favStore' = clearAllFavorites(favStore)
    /\ favCall' = [op |-> "clear", lat |-> 0, lon |-> 0, id |-> 0,
                   outcome |-> "ok", wrote |-> TRUE]
    /\ FavFrame

\* A stored favorite: the generated id and the coordinates of the city.
FavoriteCity == [id : Ids, lat : Lats, lon : Lons]

\* The lists of at most MaxFavorites favorites with pairwise different
\* (lat, lon): what the service can have stored earlier.
DupFreeLists ==
    {l \in UNION {[1..k -> FavoriteCity] : k \in 0..MaxFavorites} :
        \A i, j \in 1..Len(l) :
            (l[i].lat = l[j].lat /\ l[i].lon = l[j].lon) => i = j}

FavInit ==
    /\ favStore \in {Absent, Unparsable}
                    \cup {JSONStringify(l) : l \in DupFreeLists}
    /\ favCall = NoCall /\ StationStoreIdle


(***************************************************************************)
(* The Weather page: search history and primary weather fetches            *)
(* (part_000, lines 475-602 and 662-775).                                  *)
(***************************************************************************)

MAX_HISTORY_ITEMS == 5
MaxAdds == 6        \* addToSearchHistory calls the history specification follows
MaxInFlight == 1    \* the model starts no further fetch beyond this many

\* What an action of the page leaves alone outside the page.
PageFrame ==
    UNCHANGED <<favVars, addLog, dbVars, geoVars, clientVars,
                stVars, viewVars>>

\* Texts are sequences of one-character strings.
LocationNames == {<<"A">>, <<"B">>}
Countries == {<<"N">>, <<"S">>, <<"U">>}

\* The locations the vendor API can answer with: one more than the history
\* holds, so that the cap is reached and exceeded.
Locations == [name : LocationNames, country : Countries]

\* A weather result {location, weather} of getWeatherByCity and friends.
WeatherResults == [kind : {"data"}, location : Locations]
Null == [kind |-> "null"]

NoError == "none"

\* JSON.stringify of a value that holds strings and finite numbers only.
JSONDocument(value) == [kind |-> "json", json |-> value]

\* A plausible slip: the catch block returns null, not the fallback.
MutParseCatchReturnsNull(doc, fallback) ==
    IF doc.kind = "json" THEN doc.json
    ELSE IF doc.kind = "absent" THEN fallback
    ELSE Null

\* parseJSONSafely(value, fallback): the fallback for an absent key (getItem
\* gives null) and for a text JSON.parse rejects.
parseJSONSafely(doc, fallback) ==
    IF doc.kind = "json" THEN doc.json ELSE fallback

readHistoryFromStorage(doc) == parseJSONSafely(doc, <<>>)
readSavedWeather(doc) == parseJSONSafely(doc, Null)

\* `${cityData.location.name}, ${cityData.location.country}`
cityIdentifier(location) == location.name \o <<",", " ">> \o location.country

\* A plausible slip: the identifier is not filtered out before it is put first.
MutNewHistoryNoFilter(prev, identifier) ==
    Take(<<identifier>> \o prev, MAX_HISTORY_ITEMS)

\* A plausible slip: the new identifier is appended and the tail is kept.
MutNewHistoryAppend(prev, identifier) ==
    LET all == Without(prev, identifier) \o <<identifier>> IN
    IF Len(all) <= MAX_HISTORY_ITEMS THEN all
    ELSE SubSeq(all, Len(all) - MAX_HISTORY_ITEMS + 1, Len(all))

\* The updater of addToSearchHistory (lines 535-540).
NewHistory(prev, identifier) ==
    Take(<<identifier>> \o Without(prev, identifier), MAX_HISTORY_ITEMS)

\* The history variable after an addition: the identifier becomes the most
\* recently added one, the others keep their order.
Recorded(log, identifier) == <<identifier>> \o Without(log, identifier)

\* addToSearchHistory(cityData): the new list goes to the state and the store.
AddToSearchHistory(data) ==
    LET newHistory == NewHistory(searchHistory, cityIdentifier(data.location)) IN
    /\ searchHistory' = newHistory
    /\ histStore' = JSONDocument(newHistory)
    /\ recent' = Recorded(recent, cityIdentifier(data.location))

\* A plausible slip: persist defaults to false, and no caller passes true.
MutApplyNeverPersists(data, persist, saveHistory) ==
    /\ weatherData' = data
    /\ cityName' = data.location.name
    /\ snapStore' = snapStore
    /\ IF saveHistory
       THEN AddToSearchHistory(data)
       ELSE UNCHANGED <<searchHistory, histStore, recent>>

\* A plausible guard the code does not have: a response is dropped when the
\* response of another fetch has been applied since the page loaded.
MutDropsOvertaken(data, persist, saveHistory) ==
    IF lastFetched # Null
    THEN UNCHANGED <<weatherData, cityName, snapStore, searchHistory,
                     histStore, recent>>
    ELSE /\ weatherData' = data
         /\ cityName' = data.location.name
         /\ snapStore' = IF persist THEN JSONDocument(data) ELSE snapStore
         /\ IF saveHistory
            THEN AddToSearchHistory(data)
            ELSE UNCHANGED <<searchHistory, histStore, recent>>

\* applyWeatherData(data, {persist, saveHistory}) (lines 543-552).
ApplyWeatherData(data, persist, saveHistory) ==
    /\ weatherData' = data
    /\ cityName' = data.location.name
    /\ snapStore' = IF persist THEN JSONDocument(data) ELSE snapStore
    /\ IF saveHistory
       THEN AddToSearchHistory(data)
       ELSE UNCHANGED <<searchHistory, histStore, recent>>

InFlight == pendingDefault + pendingSearch

\* loadInitialData (lines 557-586), up to its first await: run by the mount
\* effect and again by every visibilitychange to 'visible'.
LoadInitialData ==
    LET savedHistory == readHistoryFromStorage(histStore)
        savedWeather == readSavedWeather(snapStore)
    IN  /\ mounted' = TRUE
        /\ IF savedWeather # Null
           THEN /\ weatherData' = savedWeather
                /\ cityName' = savedWeather.location.name
                /\ searchHistory' = savedHistory
                /\ UNCHANGED <<loading, pendingDefault>>
           ELSE /\ InFlight < MaxInFlight
                /\ searchHistory' = savedHistory
                /\ loading' = TRUE
                /\ pendingDefault' = pendingDefault + 1
                /\ UNCHANGED <<weatherData, cityName>>
        /\ UNCHANGED <<histStore, snapStore, error, showHistory,
                       searchSuggestions, isSearching, isActivelyTyping,
                       gettingLocation, highlightedIndex, pendingSearch,
                       recent, lastFetched, suggestionFlights>>

\* The mount effect runs loadInitialData once.
Mount == ~mounted /\ LoadInitialData /\ PageFrame

\* handleVisibilityChange (lines 590-594): the tab becomes visible again.
HandleVisibilityChange == mounted /\ LoadInitialData /\ PageFrame

\* The default load's getWeatherByCity('New York') resolves (lines 574-576,
\* 582-584).
DefaultLoadSucceeds ==
    \E data \in WeatherResults :
        /\ pendingDefault > 0
        /\ pendingDefault' = pendingDefault - 1
        /\ lastFetched' = data
        /\ ApplyWeatherData(data, TRUE, TRUE)
        /\ loading' = FALSE
        /\ UNCHANGED <<mounted, error, showHistory, searchSuggestions,
                       isSearching, isActivelyTyping, gettingLocation,
                       highlightedIndex, pendingSearch, suggestionFlights>>
        /\ PageFrame

\* It rejects (lines 577-584).
DefaultLoadFails ==
    /\ pendingDefault > 0
    /\ pendingDefault' = pendingDefault - 1
    /\ error' = "Failed to load default weather"
    /\ loading' = FALSE
    /\ UNCHANGED <<histStore, snapStore, mounted, cityName, weatherData,
                   searchHistory, showHistory, searchSuggestions, isSearching,
                   isActivelyTyping, gettingLocation, highlightedIndex,
                   pendingSearch, recent, lastFetched, suggestionFlights>>
    /\ PageFrame

\* String.prototype.trim over the blank " ".
RECURSIVE TrimLeft(_)
TrimLeft(text) ==
    IF text # <<>> /\ Head(text) = " " THEN TrimLeft(Tail(text)) ELSE text

RECURSIVE TrimRight(_)
TrimRight(text) ==
    IF text # <<>> /\ text[Len(text)] = " "
    THEN TrimRight(SubSeq(text, 1, Len(text) - 1))
    ELSE text

Trim(text) == TrimRight(TrimLeft(text))

\* text.split(',')[0]: the text before the first comma.
RECURSIVE SplitFirst(_)
SplitFirst(text) ==
    IF text = <<>> \/ Head(text) = "," THEN <<>>
    ELSE <<Head(text)>> \o SplitFirst(Tail(text))

\* The dropdown is rendered (line 1075) ...
DropdownShown ==
    /\ showHistory
    /\ Len(searchSuggestions) > 0 \/ Len(searchHistory) > 0 \/ isSearching

\* ... with the suggestions (line 1078), else with the current-location
\* option and the recent searches.
TypingMode == isActivelyTyping /\ Len(Trim(cityName)) >= 2

\* The message a rejected getWeatherByCity carries (weatherApi.js, line 88).
FetchErrors == {"City not found"}

\* handleInputFocus (lines 671-680); the input is disabled while loading
\* (line 1043).
HandleInputFocus ==
    /\ mounted /\ ~loading
    /\ searchHistory' = readHistoryFromStorage(histStore)
    /\ showHistory' = TRUE
    /\ isActivelyTyping' = FALSE
    /\ highlightedIndex' = -1
    /\ searchSuggestions' = <<>>
    /\ UNCHANGED <<histStore, snapStore, mounted, cityName, loading, error,
                   weatherData, isSearching, gettingLocation, pendingDefault,
                   pendingSearch, recent, lastFetched, suggestionFlights>>
    /\ PageFrame

\* The document-level Ctrl/Cmd+K handler (lines 624-630) when the input is
\* disabled or already focused: focus() raises no focus event.
HandleCtrlK ==
    /\ mounted
    /\ showHistory' = TRUE
    /\ UNCHANGED <<histStore, snapStore, mounted, cityName, loading, error,
                   weatherData, searchHistory, searchSuggestions, isSearching,
                   isActivelyTyping, gettingLocation, highlightedIndex,
                   pendingDefault, pendingSearch, recent,
                   lastFetched, suggestionFlights>>
    /\ PageFrame

\* clearSearchHistory (lines 771-775), from the Clear button (lines 1129-1140).
ClearSearchHistory ==
    /\ mounted /\ DropdownShown /\ ~TypingMode /\ Len(searchHistory) > 0
    /\ searchHistory' = <<>>
    /\ histStore' = Absent
    /\ showHistory' = FALSE
    /\ recent' = <<>>
    /\ UNCHANGED <<snapStore, mounted, cityName, loading, error, weatherData,
                   searchSuggestions, isSearching, isActivelyTyping,
                   gettingLocation, highlightedIndex, pendingDefault,
                   pendingSearch, lastFetched, suggestionFlights>>
    /\ PageFrame

\* handleSearch (lines 720-732) up to its await, for a non-empty term.
StartSearch ==
    /\ InFlight < MaxInFlight
    /\ loading' = TRUE
    /\ error' = NoError
    /\ showHistory' = FALSE
    /\ isActivelyTyping' = FALSE
    /\ pendingSearch' = pendingSearch + 1

\* The form is submitted (line 1032): handleSearch(e) with the input's text.
HandleSearch ==
    /\ mounted /\ ~loading
    /\ Trim(cityName) # <<>>
    /\ StartSearch
    /\ UNCHANGED <<histStore, snapStore, mounted, cityName, weatherData,
                   searchHistory, searchSuggestions, isSearching,
                   gettingLocation, highlightedIndex, pendingDefault, recent,
                   lastFetched, suggestionFlights>>
    /\ PageFrame

\* handleRecentSearchClick(city) (lines 743-747) up to the await of the
\* handleSearch it calls.
RecentSearchClicked(city) ==
    LET name == Trim(SplitFirst(city)) IN
    /\ cityName' = name
    /\ IF name # <<>> THEN TRUE ELSE Trim(cityName) # <<>>
    /\ StartSearch
    /\ UNCHANGED <<histStore, snapStore, mounted, weatherData,
                   searchHistory, searchSuggestions, isSearching,
                   gettingLocation, highlightedIndex, pendingDefault,
                   recent, lastFetched, suggestionFlights>>
    /\ PageFrame

\* A click on a recent-search button (lines 1143-1155).
HandleRecentSearchClick ==
    \E i \in 1..Len(searchHistory) :
        /\ mounted /\ DropdownShown /\ ~TypingMode
        /\ RecentSearchClicked(searchHistory[i])

\* handleSearch after its await: getWeatherByCity resolved (lines 734-735,
\* 738-739).
SearchSucceeds ==
    \E data \in WeatherResults :
        /\ pendingSearch > 0
        /\ pendingSearch' = pendingSearch - 1
        /\ lastFetched' = data
        /\ ApplyWeatherData(data, TRUE, TRUE)
        /\ loading' = FALSE
        /\ UNCHANGED <<mounted, error, showHistory, searchSuggestions,
                       isSearching, isActivelyTyping, gettingLocation,
                       highlightedIndex, pendingDefault, suggestionFlights>>
        /\ PageFrame

\* getWeatherByCity rejected (lines 736-739).
SearchFails ==
    \E message \in FetchErrors :
        /\ pendingSearch > 0
        /\ pendingSearch' = pendingSearch - 1
        /\ error' = message
        /\ loading' = FALSE
        /\ UNCHANGED <<histStore, snapStore, mounted, cityName, weatherData,
                       searchHistory, showHistory, searchSuggestions,
                       isSearching, isActivelyTyping, gettingLocation,
                       highlightedIndex, pendingDefault, recent,
                       lastFetched, suggestionFlights>>
        /\ PageFrame

\* The valid stored histories: at most MAX_HISTORY_ITEMS identifiers, no two
\* equal.
ValidHistories ==
    {h \in UNION {[1..k -> {cityIdentifier(l) : l \in Locations}] :
                     k \in 0..MAX_HISTORY_ITEMS} : NoDuplicates(h)}

\* The page as constructed (the useState initial values), nothing in flight.
PageConstructed ==
    /\ mounted = FALSE
    /\ cityName = <<>>
    /\ loading = FALSE
    /\ error = NoError
    /\ weatherData = Null
    /\ searchHistory = <<>>
    /\ showHistory = FALSE
    /\ searchSuggestions = <<>>
    /\ isSearching = FALSE
    /\ isActivelyTyping = FALSE
    /\ gettingLocation = FALSE
    /\ highlightedIndex = -1
    /\ pendingDefault = 0
    /\ pendingSearch = 0
    /\ lastFetched = Null
    /\ suggestionFlights = <<>>

\* The page before its mount effect, over every store the page can have left:
\* no history or a valid one, no snapshot, an unreadable one or a result.
PageInit ==
    /\ PageConstructed
    /\ histStore \in {Absent, Unparsable}
                     \cup {JSONDocument(h) : h \in ValidHistories}
    /\ snapStore \in {Absent, Unparsable}
                     \cup {JSONDocument(d) : d \in WeatherResults}
    /\ recent = readHistoryFromStorage(histStore)

\* The page part at rest, for the specifications of the other parts.
PageIdle ==
    /\ PageConstructed
    /\ histStore = Absent
    /\ snapStore = Absent
    /\ recent = <<>>

FavIdle == favStore = Absent /\ favCall = NoCall /\ StationStoreIdle

\* One call of addToSearchHistory on its own.
AddToSearchHistoryCall ==
    \E data \in WeatherResults :
        /\ Len(addLog) < MaxAdds
        /\ AddToSearchHistory(data)
        /\ addLog' = Append(addLog, cityIdentifier(data.location))
        /\ UNCHANGED <<snapStore, mounted, cityName, loading, error,
                       weatherData, showHistory, searchSuggestions,
                       isSearching, isActivelyTyping, gettingLocation,
                       highlightedIndex, pendingDefault, pendingSearch,
                       lastFetched, suggestionFlights>>
        /\ UNCHANGED <<favVars, dbVars, geoVars, clientVars, stVars, viewVars>>

(***************************************************************************)
(* The debounced suggestion search (part_000, lines 636-669, and            *)
(* searchCities, weatherApi.js lines 45-72).                               *)
(***************************************************************************)

\* The messages of the client's credential errors (weatherApi.js lines 4-5).
API_KEY_ERROR_MESSAGE == "API key is missing"
API_401_MESSAGE == "API key error (401)"

DEBOUNCE_DELAY == 300
TickStep == 100           \* the time one Tick step lets pass
MaxSuggestFlights == 2    \* the model fires no timer beyond this many
                          \* requests in flight

\* The texts a keystroke can leave in the input.
Texts == {<<>>, <<"L">>, <<" ", "L", " ">>, <<"L", "o">>, <<"L", "o", "n">>}

\* What the geocoding API answers for a query: searchCities sends
\* query.trim() (lines 52-54) and maps the answer to suggestions (58-67).
SuggestionCountry == <<"N">>

SuggestionsFor(query) ==
    <<[name |-> Trim(query), country |-> SuggestionCountry,
       displayName |-> Trim(query) \o <<",", " ">> \o SuggestionCountry]>>

NoTimers == {}

\* setTimeout(callback, DEBOUNCE_DELAY): the new timer is the one
\* debounceTimerRef.current names.
Scheduled(ts, query) ==
    {[t EXCEPT !.current = FALSE] : t \in ts}
        \cup {[query |-> query, left |-> DEBOUNCE_DELAY, current |-> TRUE]}

\* clearTimeout(debounceTimerRef.current): a fired timer is no longer pending
\* and clearing it does nothing.
Cleared(ts) == {t \in ts : ~t.current}

\* A plausible slip: the pending timer is not cleared before the next is set.
MutDebouncedNoClear(ts, suggestions, query) ==
    IF Len(Trim(query)) < 2
    THEN [timers |-> ts, suggestions |-> <<>>, searching |-> FALSE]
    ELSE [timers |-> Scheduled(ts, query), suggestions |-> suggestions,
          searching |-> TRUE]

\* A plausible slip: the short-query test comes first and returns before the
\* pending timer is cleared.
MutDebouncedShortFirst(ts, suggestions, query) ==
    IF Len(Trim(query)) < 2
    THEN [timers |-> ts, suggestions |-> <<>>, searching |-> FALSE]
    ELSE [timers |-> Scheduled(Cleared(ts), query), suggestions |-> suggestions,
          searching |-> TRUE]

\* A plausible slip: the short-query branch clears the timer and the
\* suggestions and leaves the searching flag as it is.
MutDebouncedShortKeepsFlag(ts, suggestions, query) ==
    IF Len(Trim(query)) < 2
    THEN [timers |-> Cleared(ts), suggestions |-> <<>>,
          searching |-> isSearching]
    ELSE [timers |-> Scheduled(Cleared(ts), query), suggestions |-> suggestions,
          searching |-> TRUE]

\* debouncedSearchCities(query) up to the timer's callback (lines 636-649,
\* 659): the timers, the suggestions and the searching flag it leaves.
debouncedSearchCities(ts, suggestions, query) ==
    IF Len(Trim(query)) < 2
    THEN [timers |-> Cleared(ts), suggestions |-> <<>>, searching |-> FALSE]
    ELSE [timers |-> Scheduled(Cleared(ts), query), suggestions |-> suggestions,
          searching |-> TRUE]

\* A plausible slip: the catch block of the timer's callback reports the
\* failure on the page.
MutSuggestionsAfterThrowShown(message, pageError) ==
    [suggestions |-> <<>>, error |-> message]

\* The catch block of the timer's callback (lines 653-655): the suggestions
\* and the page's error it leaves when searchCities threw `message`.
SuggestionsAfterThrow(message, pageError) ==
    [suggestions |-> <<>>, error |-> pageError]

Saturated(n) == IF n < 2 THEN n + 1 ELSE 2

\* handleInputChange (lines 662-669): a keystroke leaves `value` in the
\* input; the input is disabled while loading (line 1043).  A keystroke after
\* the quiet period of the previous one has elapsed begins a new burst.
HandleInputChange ==
    \E value \in Texts :
        LET d == debouncedSearchCities(timers, searchSuggestions, value)
            newBurst == quietLeft = 0
        IN  /\ mounted /\ ~loading
            /\ cityName' = value
            /\ isActivelyTyping' = TRUE
            /\ highlightedIndex' = -1
            /\ timers' = d.timers
            /\ searchSuggestions' = d.suggestions
            /\ isSearching' = d.searching
            /\ showHistory' = TRUE
            /\ quietLeft' = DEBOUNCE_DELAY
            /\ justTyped' = TRUE
            /\ burstKeys' = IF newBurst THEN 1 ELSE Saturated(burstKeys)
            /\ burstFetches' = IF newBurst THEN 0 ELSE burstFetches
            /\ shownFromResponse' =
                  IF d.suggestions = searchSuggestions
                  THEN shownFromResponse ELSE FALSE
            /\ UNCHANGED <<histStore, snapStore, mounted, loading, error,
                           weatherData, searchHistory, gettingLocation,
                           pendingDefault, pendingSearch, recent,
                           lastFetched, suggestionFlights>>
            /\ UNCHANGED <<hasApiKey, suggestFlights, burstQuery, latestDone,
                           shownLatest>>
            /\ UNCHANGED <<favVars, addLog, geoVars, clientVars,
                           stVars, viewVars>>

Remaining(left) == IF left > TickStep THEN left - TickStep ELSE 0

\* Time passes: every pending timer and the quiet period come closer to
\* their end.
Tick ==
    /\ quietLeft > 0
    /\ quietLeft' = Remaining(quietLeft)
    /\ timers' = {[t EXCEPT !.left = Remaining(t.left)] : t \in timers}
    /\ justTyped' = FALSE
    /\ UNCHANGED <<hasApiKey, suggestFlights, burstKeys, burstFetches,
                   burstQuery, latestDone, shownFromResponse, shownLatest>>
    /\ UNCHANGED <<favVars, addLog, pageVars, geoVars, clientVars,
                   stVars, viewVars>>

\* A timer that is due runs its callback (lines 649-651): it calls
\* searchCities(query, 5).  Without an API key ensureApiKey throws
\* (weatherApi.js line 46), the callback catches it and shows no suggestions
\* (lines 653-657); with one the geocoding request goes out.
TimerFires ==
    \E t \in timers :
        /\ t.left = 0
        /\ Len(suggestFlights) < MaxSuggestFlights
        /\ timers' = timers \ {t}
        /\ burstFetches' = Saturated(burstFetches)
        /\ burstQuery' = t.query
        /\ justTyped' = FALSE
        /\ IF hasApiKey
           THEN /\ suggestFlights' = Append(suggestFlights, t.query)
                /\ latestDone' = FALSE
                /\ UNCHANGED <<searchSuggestions, isSearching, error,
                               shownFromResponse, shownLatest>>
           ELSE /\ searchSuggestions' =
                      SuggestionsAfterThrow(API_KEY_ERROR_MESSAGE,
                                            error).suggestions
                /\ error' =
                      SuggestionsAfterThrow(API_KEY_ERROR_MESSAGE, error).error
                /\ isSearching' = FALSE
                /\ latestDone' = TRUE
                /\ shownFromResponse' = TRUE
                /\ shownLatest' = TRUE
                /\ UNCHANGED suggestFlights
        /\ UNCHANGED <<hasApiKey, quietLeft, burstKeys>>
        /\ UNCHANGED <<histStore, snapStore, mounted, cityName, loading,
                       weatherData, searchHistory, showHistory,
                       isActivelyTyping, gettingLocation, highlightedIndex,
                       pendingDefault, pendingSearch, recent,
                       lastFetched, suggestionFlights>>
        /\ UNCHANGED <<favVars, addLog, geoVars, clientVars, stVars, viewVars>>

RemoveAt(s, i) == SubSeq(s, 1, i - 1) \o SubSeq(s, i + 1, Len(s))

\* The result of searchCities for request i arrives (lines 651-652, 656-657):
\* the suggestions of the API, or [] when the request failed (weatherApi.js
\* lines 68-71).  The requests complete in any order.
SuggestResponse ==
    \E i \in 1..Len(suggestFlights), ok \in BOOLEAN :
        LET isLatest == i = Len(suggestFlights) /\ ~latestDone IN
        /\ suggestFlights' = RemoveAt(suggestFlights, i)
        /\ searchSuggestions' =
              IF ok THEN SuggestionsFor(suggestFlights[i]) ELSE <<>>
        /\ isSearching' = FALSE
        /\ latestDone' = (latestDone \/ isLatest)
        /\ shownFromResponse' = TRUE
        /\ shownLatest' = isLatest
        /\ justTyped' = FALSE
        /\ UNCHANGED <<hasApiKey, timers, quietLeft, burstKeys, burstFetches,
                       burstQuery>>
        /\ UNCHANGED <<histStore, snapStore, mounted, cityName, loading, error,
                       weatherData, searchHistory, showHistory,
                       isActivelyTyping, gettingLocation, highlightedIndex,
                       pendingDefault, pendingSearch, recent,
                       lastFetched, suggestionFlights>>
        /\ UNCHANGED <<favVars, addLog, geoVars, clientVars, stVars, viewVars>>

\* The search field at rest.
DebounceIdle ==
    /\ timers = NoTimers
    /\ quietLeft = 0
    /\ suggestFlights = <<>>
    /\ justTyped = FALSE
    /\ burstKeys = 0
    /\ burstFetches = 0
    /\ burstQuery = <<>>
    /\ latestDone = TRUE
    /\ shownFromResponse = FALSE
    /\ shownLatest = FALSE

\* The page after its mount effect has applied a stored snapshot (lines
\* 563-568): nothing is loading and the input is enabled.
StoredResult ==
    [kind |-> "data", location |-> [name |-> <<"A">>, country |-> <<"N">>]]

PageLoadedFromSnapshot ==
    /\ mounted = TRUE
    /\ cityName = StoredResult.location.name
    /\ loading = FALSE
    /\ error = NoError
    /\ weatherData = StoredResult
    /\ searchHistory = <<cityIdentifier(StoredResult.location)>>
    /\ showHistory = FALSE
    /\ searchSuggestions = <<>>
    /\ isSearching = FALSE
    /\ isActivelyTyping = FALSE
    /\ gettingLocation = FALSE
    /\ highlightedIndex = -1
    /\ pendingDefault = 0
    /\ pendingSearch = 0
    /\ histStore = JSONDocument(<<cityIdentifier(StoredResult.location)>>)
    /\ snapStore = JSONDocument(StoredResult)
    /\ recent = <<cityIdentifier(StoredResult.location)>>
    /\ lastFetched = Null
    /\ suggestionFlights = <<>>

(***************************************************************************)
(* A click on a suggestion (handleSuggestionClick, part_000 lines 749-769, *)
(* and getWeatherByCoordinates, weatherApi.js lines 182-195).              *)
(***************************************************************************)

\* The messages getWeatherByCoordinates can reject with once its requests
\* are out: a status that is not ok (weatherApi.js lines 16-27), and a
\* rejected fetch.
CoordinateFetchErrors == {API_401_MESSAGE, "Failed to fetch"}

\* The {location, weather} the call resolves with (weatherApi.js lines
\* 185-194): the place is the suggestion's.
SuggestionResult(suggestion) ==
    [kind |-> "data",
     location |-> [name |-> suggestion.name, country |-> suggestion.country]]

\* handleSuggestionClick(suggestion) up to its await (lines 749-762).
\* Without an API key getWeatherByCoordinates rejects before a request goes
\* out (ensureApiKey, weatherApi.js lines 108, 120) and the catch and finally
\* blocks run.
SuggestionClicked(suggestion) ==
    /\ cityName' = suggestion.displayName
    /\ searchSuggestions' = <<>>
    /\ showHistory' = FALSE
    /\ isActivelyTyping' = FALSE
    /\ IF hasApiKey
       THEN /\ loading' = TRUE
            /\ error' = NoError
            /\ suggestionFlights' = Append(suggestionFlights, suggestion)
       ELSE /\ loading' = FALSE
            /\ error' = API_KEY_ERROR_MESSAGE
            /\ UNCHANGED suggestionFlights
    /\ UNCHANGED <<histStore, snapStore, mounted, weatherData,
                   searchHistory, isSearching, gettingLocation,
                   highlightedIndex, pendingDefault, pendingSearch,
                   recent, lastFetched>>
    /\ PageFrame

\* A click on a suggestion's button (lines 1096-1107).
HandleSuggestionClick ==
    \E i \in 1..Len(searchSuggestions) :
        /\ mounted /\ DropdownShown /\ TypingMode
        /\ SuggestionClicked(searchSuggestions[i])

\* getWeatherByCoordinates resolves: applyWeatherData(data), then the
\* finally block (lines 763, 766-768).
SuggestionFetchSucceeds ==
    \E i \in 1..Len(suggestionFlights) :
        LET data == SuggestionResult(suggestionFlights[i]) IN
        /\ suggestionFlights' = RemoveAt(suggestionFlights, i)
        /\ lastFetched' = data
        /\ ApplyWeatherData(data, TRUE, TRUE)
        /\ loading' = FALSE
        /\ UNCHANGED <<mounted, error, showHistory, searchSuggestions,
                       isSearching, isActivelyTyping, gettingLocation,
                       highlightedIndex, pendingDefault, pendingSearch>>
        /\ PageFrame

\* getWeatherByCoordinates rejects: the catch block, then the finally block
\* (lines 764-768).
SuggestionFetchFails ==
    \E i \in 1..Len(suggestionFlights), message \in CoordinateFetchErrors :
        /\ suggestionFlights' = RemoveAt(suggestionFlights, i)
        /\ error' = message
        /\ loading' = FALSE
        /\ UNCHANGED <<histStore, snapStore, mounted, cityName, weatherData,
                       searchHistory, showHistory, searchSuggestions,
                       isSearching, isActivelyTyping, gettingLocation,
                       highlightedIndex, pendingDefault, pendingSearch,
                       recent, lastFetched>>
        /\ PageFrame

\* The page before its mount effect in a browser that holds what an earlier
\* visit stored: the snapshot of StoredResult and its history.
PageBeforeMount ==
    /\ PageConstructed
    /\ histStore = JSONDocument(<<cityIdentifier(StoredResult.location)>>)
    /\ snapStore = JSONDocument(StoredResult)
    /\ recent = <<cityIdentifier(StoredResult.location)>>

\* The page loaded from the snapshot after "Lon" was typed, the pause passed
\* and searchCities answered: the dropdown lists the suggestion.
TypedText == <<"L", "o", "n">>

SuggestionsDisplayed ==
    /\ mounted = TRUE
    /\ cityName = TypedText
    /\ loading = FALSE
    /\ error = NoError
    /\ weatherData = StoredResult
    /\ searchHistory = <<cityIdentifier(StoredResult.location)>>
    /\ showHistory = TRUE
    /\ searchSuggestions = SuggestionsFor(TypedText)
    /\ isSearching = FALSE
    /\ isActivelyTyping = TRUE
    /\ gettingLocation = FALSE
    /\ highlightedIndex = -1
    /\ pendingDefault = 0
    /\ pendingSearch = 0
    /\ histStore = JSONDocument(<<cityIdentifier(StoredResult.location)>>)
    /\ snapStore = JSONDocument(StoredResult)
    /\ recent = <<cityIdentifier(StoredResult.location)>>
    /\ lastFetched = Null
    /\ suggestionFlights = <<>>
    /\ hasApiKey = TRUE
    /\ timers = NoTimers
    /\ quietLeft = 0
    /\ suggestFlights = <<>>
    /\ justTyped = FALSE
    /\ burstKeys = 1
    /\ burstFetches = 1
    /\ burstQuery = TypedText
    /\ latestDone = TRUE
    /\ shownFromResponse = TRUE
    /\ shownLatest = TRUE

\* The page specification follows the history up to this many entries.
MaxFollowedHistory == 2

HistoryFollowed == Len(searchHistory) <= MaxFollowedHistory

\* No primary fetch of the page is in flight.
NoFetchInFlight ==
    InFlight = 0 /\ suggestionFlights = <<>> /\ ~gettingLocation

(***************************************************************************)
(* The current-location lookup (part_000, lines 777-871).                  *)
(***************************************************************************)

\* geolocationAttempts (lines 793-804).
GeolocationAttempts ==
    << [enableHighAccuracy |-> FALSE, timeout |-> 10000, maximumAge |-> 300000],
       [enableHighAccuracy |-> TRUE, timeout |-> 20000, maximumAge |-> 0] >>

\* GeolocationPositionError.code: permission denied, position unavailable,
\* timeout.
PositionErrorCodes == {1, 2, 3}

\* position.coords of a position the device reports.
Positions == CityData

NoPosition == [kind |-> "null"]

NoGeoError == [code |-> 0, attempt |-> 0, message |-> "none"]

\* The error getCurrentPosition rejects attempt k with.
AttemptError(code, k) == [code |-> code, attempt |-> k, message |-> ""]

GenericLocationError ==
    [code |-> 0, attempt |-> 0,
     message |-> "Unable to determine location after multiple attempts"]

ApiKeyError == [code |-> 0, attempt |-> 0, message |-> "API key is missing"]

\* What the weather requests can fail with (requestJson, weatherApi.js lines
\* 21-29).
WeatherErrors == {[code |-> 0, attempt |-> 0, message |-> "API key error (401)"]}

\* The message the catch block shows for err (lines 858-866).
LocationErrorMessage(err) ==
    IF err.code = 1
    THEN "Location access denied. Please allow location access in your browser settings and reload the page."
    ELSE IF err.code = 2
    THEN "Unable to determine your location. Try searching for your city manually."
    ELSE IF err.code = 3
    THEN "Location request timed out. Your device may be having trouble determining location. Try searching for your city manually."
    ELSE IF err.message = ""
    THEN "Failed to get current location. Please search for your city instead."
    ELSE err.message

DefaultLocationInfo ==
    [name |-> <<"C", "u", "r", "r", "e", "n", "t", " ",
                "L", "o", "c", "a", "t", "i", "o", "n">>,
     country |-> <<>>]

\* What the reverse geocoding can name the place.
ReverseLocations ==
    {l \in Locations : l.name = <<"B">> /\ l.country \in {<<"N">>, <<"S">>}}

\* How the reverse geocoding request can settle (lines 835-851): answered
\* with a place; or fetch rejected, a status that is not ok, a body that is
\* no JSON, an empty array.
ReverseFailures == {"rejected", "status", "unparsable", "empty"}

ReverseResults ==
    {[kind |-> "ok", location |-> l] : l \in ReverseLocations}
        \cup {[kind |-> k, location |-> Null] : k \in ReverseFailures}

NoReverse == [kind |-> "none", location |-> Null]

\* A plausible slip: the answer's first element is used without the test of
\* line 841, and an empty answer gives a place without a name.
MutLocationInfoNoTest(result, info) ==
    IF result.kind = "ok"
    THEN [name |-> result.location.name, country |-> result.location.country]
    ELSE IF result.kind = "empty"
    THEN [name |-> <<>>, country |-> <<>>]
    ELSE info

\* locationInfo after the reverse geocoding (lines 834-851): the place of
\* the answer when there is one, else what it was.
LocationInfoAfter(result, info) ==
    IF result.kind = "ok"
    THEN [name |-> result.location.name, country |-> result.location.country]
    ELSE info

\* A plausible slip: latitude and longitude change places.
MutRequestSwapped(kind, pos) == [kind |-> kind, lat |-> pos.lon, lon |-> pos.lat]

\* A request with lat and lon taken from position.coords (lines 823, 836,
\* 854).
RequestFor(kind, pos) == [kind |-> kind, lat |-> pos.lat, lon |-> pos.lon]

Outstanding(k) ==
    [options |-> GeolocationAttempts[k], kind |-> "outstanding", code |-> 0,
     coords |-> NoPosition]

\* A plausible slip: the loop has no break and goes on after a position.
MutLoopNoBreak(k, pos) == k < Len(GeolocationAttempts)

\* The for loop goes to its next iteration (lines 810-817): attempt k left no
\* position and there is another configuration.
LoopContinues(k, pos) == pos = NoPosition /\ k < Len(GeolocationAttempts)

\* A plausible slip: only the first failure is kept.
MutCaptureFirst(last, attemptError) ==
    IF last = NoGeoError THEN attemptError ELSE last

\* lastError = attemptError (line 815).
Capture(last, attemptError) == attemptError

\* The finally block (lines 867-870).
GeoFinally ==
    /\ gettingLocation' = FALSE
    /\ loading' = FALSE
    /\ geoPc' = "idle"

\* A plausible slip: the catch block also clears the displayed weather.
MutGeoCatchClears(err) ==
    /\ caughtError' = err
    /\ error' = LocationErrorMessage(err)
    /\ GeoFinally
    /\ weatherData' = Null
    /\ UNCHANGED <<histStore, snapStore, cityName, searchHistory, recent,
                   lastFetched, suggestionFlights>>

\* The catch block and the finally block (lines 857-870).
GeoCatch(err) ==
    /\ caughtError' = err
    /\ error' = LocationErrorMessage(err)
    /\ GeoFinally
    /\ UNCHANGED <<histStore, snapStore, cityName, weatherData, searchHistory,
                   recent, lastFetched, suggestionFlights>>

\* Lines 823-855 up to the first await after a position is at hand: with an
\* API key the reverse geocoding request goes out; without one
\* getWeatherByCoordinates rejects at once (ensureApiKey, weatherApi.js lines
\* 108, 120) and the catch block runs.
AfterPosition ==
    /\ locationInfo' = DefaultLocationInfo
    /\ IF hasApiKey
       THEN /\ geoPc' = "reverse"
            /\ geoRequests' =
                  Append(geoRequests, RequestFor("reverse", position'))
            /\ UNCHANGED <<caughtError, error, gettingLocation, loading,
                           histStore, snapStore, cityName, weatherData,
                           searchHistory, recent,
                           lastFetched, suggestionFlights>>
       ELSE /\ GeoCatch(ApiKeyError)
            /\ UNCHANGED geoRequests

\* The rest of the loop after attempt k has settled with `pos` and `last`
\* (lines 810-821): the next attempt, or the steps after the loop.
AfterAttempt(settled, pos, last) ==
    LET k == Len(settled) IN
    /\ position' = pos
    /\ lastError' = last
    /\ IF LoopContinues(k, pos)
       THEN /\ attempts' = Append(settled, Outstanding(k + 1))
            /\ UNCHANGED <<geoPc, locationInfo, caughtError, geoRequests,
                           error, gettingLocation, loading, histStore,
                           snapStore, cityName, weatherData, searchHistory,
                           recent, lastFetched, suggestionFlights>>
       ELSE /\ attempts' = settled
            /\ IF pos = NoPosition
               THEN /\ GeoCatch(IF last # NoGeoError
                                THEN last ELSE GenericLocationError)
                    /\ UNCHANGED <<locationInfo, geoRequests>>
               ELSE AfterPosition

GeoFrame ==
    UNCHANGED <<favVars, addLog, dbVars, geoSupported, clientVars,
                stVars, viewVars>>

\* handleCurrentLocation up to its first await (lines 777-812).  The button
\* is disabled while an invocation runs (line 1117).
HandleCurrentLocation ==
    /\ mounted /\ ~gettingLocation
    /\ IF ~geoSupported
       THEN /\ error' = "Geolocation is not supported by your browser"
            /\ UNCHANGED <<gettingLocation, showHistory, loading, geoPc,
                           attempts, position, lastError, locationInfo,
                           caughtError, reverseResult, geoRequests>>
       ELSE /\ gettingLocation' = TRUE
            /\ showHistory' = FALSE
            /\ error' = NoError
            /\ loading' = TRUE
            /\ position' = NoPosition
            /\ lastError' = NoGeoError
            /\ attempts' = <<Outstanding(1)>>
            /\ geoPc' = "attempt"
            /\ caughtError' = NoGeoError
            /\ geoRequests' = <<>>
            /\ reverseResult' = NoReverse
            /\ UNCHANGED locationInfo
    /\ UNCHANGED <<histStore, snapStore, mounted, cityName, weatherData,
                   searchHistory, searchSuggestions, isSearching,
                   isActivelyTyping, highlightedIndex, pendingDefault,
                   pendingSearch, recent, lastFetched, suggestionFlights>>
    /\ GeoFrame

Settle(log, kind, code, coords) ==
    [log EXCEPT ![Len(log)] =
        [@ EXCEPT !.kind = kind, !.code = code, !.coords = coords]]

\* getCurrentPosition calls resolve (lines 812-813): with a position, or with
\* nothing, the case the test at line 813 provides for.
PositionResolves ==
    \E pos \in Positions \cup {NoPosition} :
        /\ geoPc = "attempt"
        /\ AfterAttempt(Settle(attempts,
                               IF pos = NoPosition THEN "empty" ELSE "position",
                               0, pos),
                        pos, lastError)
        /\ UNCHANGED <<mounted, showHistory, searchSuggestions, isSearching,
                       isActivelyTyping, highlightedIndex, pendingDefault,
                       pendingSearch, reverseResult>>
        /\ GeoFrame

\* getCurrentPosition calls reject (lines 814-816).
PositionRejects ==
    \E code \in PositionErrorCodes :
        /\ geoPc = "attempt"
        /\ AfterAttempt(Settle(attempts, "rejected", code, NoPosition),
                        position,
                        Capture(lastError, AttemptError(code, Len(attempts))))
        /\ UNCHANGED <<mounted, showHistory, searchSuggestions, isSearching,
                       isActivelyTyping, highlightedIndex, pendingDefault,
                       pendingSearch, reverseResult>>
        /\ GeoFrame

\* The reverse geocoding request settles (lines 835-852) and
\* getWeatherByCoordinates sends the weather requests for latitude and
\* longitude (line 854).
ReverseGeocodeSettles ==
    \E result \in ReverseResults :
        /\ geoPc = "reverse"
        /\ reverseResult' = result
        /\ locationInfo' = LocationInfoAfter(result, locationInfo)
        /\ geoPc' = "weather"
        /\ geoRequests' = Append(geoRequests, RequestFor("weather", position))
        /\ UNCHANGED <<attempts, position, lastError, caughtError>>
        /\ UNCHANGED pageVars
        /\ GeoFrame

\* getWeatherByCoordinates resolves (weatherApi.js lines 182-195) and
\* applyWeatherData(data) runs (line 855), then the finally block.
LocationWeatherSucceeds ==
    /\ geoPc = "weather"
    /\ lastFetched' = [kind |-> "data", location |-> locationInfo]
    /\ ApplyWeatherData([kind |-> "data", location |-> locationInfo], TRUE, TRUE)
    /\ GeoFinally
    /\ UNCHANGED <<attempts, position, lastError, locationInfo, caughtError,
                   reverseResult, geoRequests>>
    /\ UNCHANGED <<mounted, error, showHistory, searchSuggestions, isSearching,
                   isActivelyTyping, highlightedIndex, pendingDefault,
                   pendingSearch, suggestionFlights>>
    /\ GeoFrame

\* getWeatherByCoordinates rejects and the catch block runs.
LocationWeatherFails ==
    \E err \in WeatherErrors :
        /\ geoPc = "weather"
        /\ GeoCatch(err)
        /\ UNCHANGED <<attempts, position, lastError, locationInfo,
                       reverseResult, geoRequests>>
        /\ UNCHANGED <<mounted, showHistory, searchSuggestions, isSearching,
                       isActivelyTyping, highlightedIndex, pendingDefault,
                       pendingSearch>>
        /\ GeoFrame

\* No invocation has run.
GeoIdle ==
    /\ geoPc = "idle"
    /\ attempts = <<>>
    /\ position = NoPosition
    /\ lastError = NoGeoError
    /\ locationInfo = DefaultLocationInfo
    /\ caughtError = NoGeoError
    /\ geoRequests = <<>>
    /\ reverseResult = NoReverse

(***************************************************************************)
(* The weather data client (weatherApi.js, lines 1-195).                   *)
(***************************************************************************)

\* A plausible slip: the credential test is left out.
MutEnsureApiKeyNever(hasKey) == FALSE

\* ensureApiKey (lines 7-11): TRUE when it throws.
ensureApiKey(hasKey) == ~hasKey

ClientError(message) == [kind |-> "error", message |-> message]
ClientValue(value) == [kind |-> "value", value |-> value]
NotSettled == [kind |-> "none"]
PendingRequest == [kind |-> "pending"]

\* What fetch and the body of the response can come to: status ok with a
\* JSON body, status ok with a body that is no JSON, fetch rejected, or a
\* status that is not ok, whose body carries a message, carries none, or is
\* no JSON.
FailureStatuses == {401, 404}
ErrorBodies == {"city not found", "", "unparsable"}

HttpFailures ==
    {[kind |-> "rejected"], [kind |-> "unparsable"]}
        \cup {[kind |-> "status", status |-> st, errorBody |-> b,
               statusText |-> "Not Found"] :
                 st \in FailureStatuses, b \in ErrorBodies}

HttpOk(body) == [kind |-> "ok", body |-> body]

\* errorData.message of `await response.json().catch(() => ({}))` (line 20).
ErrorDataMessage(errorBody) == IF errorBody = "unparsable" THEN "" ELSE errorBody

\* A plausible slip: the .catch(() => ({})) of line 20 is left out, so an
\* error body that is no JSON throws the parser's error.
MutErrorBodyMustParse(response, label) ==
    CASE response.kind = "ok" -> ClientValue(response.body)
      [] response.kind = "unparsable" -> ClientError("Unexpected token")
      [] response.kind = "rejected" -> ClientError("Failed to fetch")
      [] response.kind = "status" ->
            IF response.errorBody = "unparsable"
            THEN ClientError("Unexpected token")
            ELSE IF response.status = 401
            THEN ClientError(API_401_MESSAGE)
            ELSE ClientError(
                    label \o " error: " \o ToString(response.status) \o " - "
                    \o (IF response.errorBody # ""
                        THEN response.errorBody
                        ELSE response.statusText))

\* requestJson(url, label) once the response is in (lines 13-30).
requestJson(response, label) ==
    CASE response.kind = "ok" -> ClientValue(response.body)
      [] response.kind = "unparsable" -> ClientError("Unexpected token")
      [] response.kind = "rejected" -> ClientError("Failed to fetch")
      [] response.kind = "status" ->
            IF response.status = 401
            THEN ClientError(API_401_MESSAGE)
            ELSE ClientError(
                    label \o " error: " \o ToString(response.status) \o " - "
                    \o (IF ErrorDataMessage(response.errorBody) # ""
                        THEN ErrorDataMessage(response.errorBody)
                        ELSE response.statusText))

\* The places the geocoding API knows, and the arrays it answers with.
NoState == <<>>
GeoPlaces ==
    {[lat |-> c.lat, lon |-> c.lon, name |-> <<"A">>, country |-> <<"N">>,
      state |-> st] : c \in CityData, st \in {NoState, <<"T">>}}

GeocodingBodies == {<<>>} \cup {<<g>> : g \in GeoPlaces}

\* The mapping of searchCities (lines 58-67).
Suggestion(location) ==
    [lat |-> location.lat, lon |-> location.lon, name |-> location.name,
     country |-> location.country, state |-> location.state,
     displayName |->
        location.name
        \o (IF location.state # NoState
            THEN <<",", " ">> \o location.state ELSE <<>>)
        \o <<",", " ">> \o location.country]

MapSuggestions(data) == [i \in 1..Len(data) |-> Suggestion(data[i])]

\* A plausible slip: the catch block of searchCities rethrows.
MutSearchCitiesRethrows(settled) ==
    IF settled.kind = "value"
    THEN ClientValue(MapSuggestions(settled.value))
    ELSE settled

\* searchCities after its await (lines 56-71): the mapped answer, or [] when
\* requestJson threw.
SearchCitiesResult(settled) ==
    IF settled.kind = "value"
    THEN ClientValue(MapSuggestions(settled.value))
    ELSE ClientValue(<<>>)

\* A text as the string of its characters.
RECURSIVE Join(_)
Join(text) == IF text = <<>> THEN "" ELSE text[1] \o Join(Tail(text))

\* A plausible slip: the test of line 87 is !data alone, so that data[0] of
\* an empty answer is undefined and reading its lat throws.
MutNoLengthTest(settled, cityText) ==
    IF settled.kind = "error" THEN settled
    ELSE IF Len(settled.value) = 0
    THEN ClientError("Cannot read properties of undefined (reading 'lat')")
    ELSE ClientValue([lat |-> settled.value[1].lat,
                      lon |-> settled.value[1].lon,
                      name |-> settled.value[1].name,
                      country |-> settled.value[1].country,
                      state |-> settled.value[1].state])

\* getCoordinatesFromCity after its await (lines 85-98).
CoordinatesResult(settled, cityText) ==
    IF settled.kind = "error" THEN settled
    ELSE IF Len(settled.value) = 0
    THEN ClientError("City \"" \o Join(cityText) \o "\" not found")
    ELSE ClientValue([lat |-> settled.value[1].lat,
                      lon |-> settled.value[1].lon,
                      name |-> settled.value[1].name,
                      country |-> settled.value[1].country,
                      state |-> settled.value[1].state])

\* The bodies of the two weather endpoints.
CurrentBodies == {[dt |-> 1, temp |-> t, humidity |-> 50] : t \in {-1, 4}}
ForecastBodies == {[list |-> l] : l \in {<<>>, <<7>>, <<7, 8>>}}

\* The record getWeatherData returns (lines 137-157).
WeatherRecord(currentData, forecastData) ==
    [current |-> [dt |-> currentData.dt,
                  temp |-> currentData.temp,
                  humidity |-> currentData.humidity,
                  dew_point |->
                      currentData.temp - (100 - currentData.humidity) \div 5],
     daily |-> forecastData.list,
     hourly |-> Take(forecastData.list, 24)]

\* A plausible slip: Promise.allSettled in place of Promise.all, a failed
\* part becoming an empty one.
MutAllSettled(current, forecast) ==
    IF current.kind \in {"pending"} \/ forecast.kind \in {"pending"}
    THEN NotSettled
    ELSE ClientValue(
            [current |-> IF current.kind = "value" THEN current.value
                         ELSE NotSettled,
             daily |-> IF forecast.kind = "value" THEN forecast.value.list
                       ELSE <<>>,
             hourly |-> <<>>])

\* `await Promise.all([...])` and the return of getWeatherData (lines
\* 132-157), given what has become of the two requests: it throws as soon as
\* one has failed, returns the record once both have succeeded, and waits
\* otherwise.  It is evaluated when a request settles, so of two failures the
\* one that came first is the one thrown.
getWeatherData(current, forecast) ==
    IF current.kind = "error" THEN current
    ELSE IF forecast.kind = "error" THEN forecast
    ELSE IF current.kind = "value" /\ forecast.kind = "value"
    THEN ClientValue(WeatherRecord(current.value, forecast.value))
    ELSE NotSettled

\* What the caller of getWeatherData makes of its value (lines 169-172,
\* 185-194).
WithLocation(call, location, settled) ==
    IF settled.kind # "value" \/ call.op = "getWeatherData" THEN settled
    ELSE ClientValue([location |-> location, weather |-> settled.value])

Operations ==
    {"searchCities", "getCoordinatesFromCity", "getWeatherData",
     "getWeatherByCity", "getWeatherByCoordinates"}

\* The calls made of the client: a text for the operations that take one,
\* coordinates for the others.
ClientCallsMade ==
    {[op |-> "searchCities", text |-> t, lat |-> 0, lon |-> 0] : t \in Texts}
    \cup {[op |-> o, text |-> t, lat |-> 0, lon |-> 0] :
            o \in {"getCoordinatesFromCity", "getWeatherByCity"},
            t \in LocationNames}
    \cup {[op |-> o, text |-> <<>>, lat |-> c.lat, lon |-> c.lon] :
            o \in {"getWeatherData", "getWeatherByCoordinates"},
            c \in CityData}

NoClientCall == [op |-> "none", text |-> <<>>, lat |-> 0, lon |-> 0]

GeocodingRequest(q) == [endpoint |-> "direct", q |-> q, lat |-> 0, lon |-> 0]

WeatherRequestPair(lat, lon) ==
    << [endpoint |-> "weather", q |-> <<>>, lat |-> lat, lon |-> lon],
       [endpoint |-> "forecast", q |-> <<>>, lat |-> lat, lon |-> lon] >>

\* A response as it came in for the request of a label, and what
\* requestJson made of it.
Answered(label, response, settled) ==
    [label |-> label, response |-> response, result |-> settled]

ClientFrame ==
    UNCHANGED <<favVars, pageVars, addLog, dbVars, geoVars, stVars, viewVars>>

\* getWeatherData(lat, lon) up to its await (lines 131-135, 107-123): both
\* requests go out in the same step.
StartWeatherData(lat, lon) ==
    /\ clientHttp' = clientHttp \o WeatherRequestPair(lat, lon)
    /\ currentReq' = PendingRequest
    /\ forecastReq' = PendingRequest
    /\ clientPc' = "weather"

\* An operation is called, and runs up to its first await.  Every operation
\* begins with ensureApiKey (lines 46, 80, 108, 120).
ClientCalls ==
    \E call \in ClientCallsMade :
        /\ clientPc \in {"idle", "done"}
        /\ currentReq.kind # "pending" /\ forecastReq.kind # "pending"
        /\ clientCall' = call
        /\ clientResponses' = <<>>
        /\ clientLocation' =
              IF call.op = "getWeatherByCoordinates"
              THEN [lat |-> call.lat, lon |-> call.lon,
                    name |-> DefaultLocationInfo.name,
                    country |-> DefaultLocationInfo.country,
                    state |-> NoState]
              ELSE NotSettled
        /\ IF ensureApiKey(hasApiKey)
           THEN /\ clientResult' = ClientError(API_KEY_ERROR_MESSAGE)
                /\ clientPc' = "done"
                /\ geocodingReq' = NotSettled
                /\ clientHttp' = <<>>
                /\ currentReq' = NotSettled
                /\ forecastReq' = NotSettled
           ELSE IF call.op = "searchCities" /\ Len(Trim(call.text)) < 2
           THEN /\ clientResult' = ClientValue(<<>>)
                /\ clientPc' = "done"
                /\ geocodingReq' = NotSettled
                /\ clientHttp' = <<>>
                /\ currentReq' = NotSettled
                /\ forecastReq' = NotSettled
           ELSE IF call.op \in {"searchCities", "getCoordinatesFromCity",
                                "getWeatherByCity"}
           THEN /\ clientResult' = NotSettled
                /\ clientPc' = "geocoding"
                /\ geocodingReq' = PendingRequest
                /\ clientHttp' =
                      <<GeocodingRequest(IF call.op = "searchCities"
                                         THEN Trim(call.text) ELSE call.text)>>
                /\ currentReq' = NotSettled
                /\ forecastReq' = NotSettled
           ELSE /\ clientResult' = NotSettled
                /\ geocodingReq' = NotSettled
                /\ clientHttp' = WeatherRequestPair(call.lat, call.lon)
                /\ currentReq' = PendingRequest
                /\ forecastReq' = PendingRequest
                /\ clientPc' = "weather"
        /\ ClientFrame

\* The geocoding request settles.  getWeatherByCity goes on to
\* getWeatherData with the location found (lines 166-167).
GeocodingSettles ==
    \E response \in HttpFailures \cup {HttpOk(b) : b \in GeocodingBodies} :
        LET settled == requestJson(response, "Geocoding API")
            found == CoordinatesResult(settled, clientCall.text)
        IN  /\ clientPc = "geocoding"
            /\ geocodingReq' = settled
            /\ clientResponses' =
                  Append(clientResponses,
                         Answered("Geocoding API", response, settled))
            /\ IF clientCall.op = "searchCities"
               THEN /\ clientResult' = SearchCitiesResult(settled)
                    /\ clientPc' = "done"
                    /\ UNCHANGED <<clientHttp, currentReq, forecastReq,
                                   clientLocation>>
               ELSE IF clientCall.op = "getCoordinatesFromCity"
                       \/ found.kind = "error"
               THEN /\ clientResult' = found
                    /\ clientPc' = "done"
                    /\ UNCHANGED <<clientHttp, currentReq, forecastReq,
                                   clientLocation>>
               ELSE /\ clientLocation' = found.value
                    /\ StartWeatherData(found.value.lat, found.value.lon)
                    /\ UNCHANGED clientResult
            /\ UNCHANGED clientCall
            /\ ClientFrame

\* What a settling weather request does to the awaiting call: nothing when
\* the call has settled already.
AfterWeatherRequest(current, forecast) ==
    LET all == getWeatherData(current, forecast) IN
    IF clientPc = "weather" /\ all.kind # "none"
    THEN /\ clientResult' = WithLocation(clientCall, clientLocation, all)
         /\ clientPc' = "done"
    ELSE UNCHANGED <<clientResult, clientPc>>

\* The current-conditions request settles (getCurrentWeather, lines 107-111).
CurrentWeatherSettles ==
    \E response \in HttpFailures \cup {HttpOk(b) : b \in CurrentBodies} :
        /\ currentReq.kind = "pending"
        /\ currentReq' = requestJson(response, "Current Weather API")
        /\ clientResponses' =
              Append(clientResponses,
                     Answered("Current Weather API", response, currentReq'))
        /\ AfterWeatherRequest(currentReq', forecastReq)
        /\ UNCHANGED <<clientCall, clientHttp, geocodingReq, forecastReq,
                       clientLocation>>
        /\ ClientFrame

\* The forecast request settles (getForecast, lines 119-123).
ForecastSettles ==
    \E response \in HttpFailures \cup {HttpOk(b) : b \in ForecastBodies} :
        /\ forecastReq.kind = "pending"
        /\ forecastReq' = requestJson(response, "Forecast API")
        /\ clientResponses' =
              Append(clientResponses,
                     Answered("Forecast API", response, forecastReq'))
        /\ AfterWeatherRequest(currentReq, forecastReq')
        /\ UNCHANGED <<clientCall, clientHttp, geocodingReq, currentReq,
                       clientLocation>>
        /\ ClientFrame

\* No call has been made.
ClientIdle ==
    /\ clientCall = NoClientCall
    /\ clientPc = "idle"
    /\ clientHttp = <<>>
    /\ geocodingReq = NotSettled
    /\ currentReq = NotSettled
    /\ forecastReq = NotSettled
    /\ clientLocation = NotSettled
    /\ clientResult = NotSettled
    /\ clientResponses = <<>>

(***************************************************************************)
(* The stations view (part_000, lines 116-268).  It imports the favorites  *)
(* operations by the names weatherApi.js defines them under.               *)
(***************************************************************************)

\* The cities the suggestions of the stations view offer.
StationCityData == {c \in CityData : c.lat = c.lon}

NoWeather == [kind |-> "null"]
NoStationError == "none"
EmptyMap == << >>

\* What the weather API answers for a city's coordinates.
StationAnswer(city) ==
    ClientValue(WeatherRecord(
        [dt |-> 1, temp |-> city.lat, humidity |-> 50],
        [list |-> << [temp_min |-> city.lat - 1, temp_max |-> city.lat + 1],
                     [temp_min |-> city.lat - 2, temp_max |-> city.lat] >>]))

\* How getWeatherData(city.lat, city.lon) can settle.
StationFetches(city) == {StationAnswer(city), ClientError("Failed to fetch")}

MinOf(S) == CHOOSE x \in S : \A y \in S : x <= y
MaxOf(S) == CHOOSE x \in S : \A y \in S : x >= y

\* A plausible slip: fetchCityWeather has no try/catch and the failure goes
\* on to its caller.
MutFetchCityWeatherThrows(settled) ==
    IF settled.kind = "value"
    THEN LET today == Take(settled.value.daily, 8) IN
         [kind |-> "weather",
          temp |-> settled.value.current.temp,
          temp_min |-> MinOf({today[i].temp_min : i \in 1..Len(today)}),
          temp_max |-> MaxOf({today[i].temp_max : i \in 1..Len(today)})]
    ELSE settled

\* fetchCityWeather after its await (lines 130-152): the summary of the
\* record, or null when getWeatherData threw.
fetchCityWeather(settled) ==
    IF settled.kind = "value"
    THEN LET today == Take(settled.value.daily, 8) IN
         [kind |-> "weather",
          temp |-> settled.value.current.temp,
          temp_min |-> MinOf({today[i].temp_min : i \in 1..Len(today)}),
          temp_max |-> MaxOf({today[i].temp_max : i \in 1..Len(today)})]
    ELSE NoWeather

\* Object.fromEntries(entries) (line 170): of two entries with one id the
\* later one stays.
FromEntries(entries) ==
    [id \in {entries[i].id : i \in 1..Len(entries)} |->
        LET last == MaxOf({i \in 1..Len(entries) : entries[i].id = id})
        IN  entries[last].weather]

\* { ...prev, [id]: weather } (line 243).
WithEntry(map, id, weather) ==
    [k \in DOMAIN map \cup {id} |-> IF k = id THEN weather ELSE map[k]]

\* delete newData[cityId] (lines 259-263).
WithoutEntry(map, id) == [k \in DOMAIN map \ {id} |-> map[k]]

\* err.message of what the favorites operations throw (weatherApi.js lines
\* 222, 245, 269).
FavoritesErrorMessage(outcome) ==
    CASE outcome = "already" -> "This city is already in your favorites"
      [] outcome = "save_failed" -> "Failed to save favorite cities"
      [] outcome = "not_found" -> "City not found in favorites"

StationsFrame ==
    UNCHANGED <<favCall, storeVars, pageVars, addLog, dbVars, geoVars,
                clientVars, viewVars>>

\* A plausible slip: the load goes on when the first fetch has settled
\* (Promise.race or Promise.any in the place of Promise.all).
MutAnySettled(entries) ==
    \E i \in 1..Len(entries) : entries[i].weather # PendingRequest

\* Promise.all(favorites.map(...)) (lines 166-168) has resolved.
AllSettled(entries) ==
    \A i \in 1..Len(entries) : entries[i].weather # PendingRequest

\* The mount effect runs loadFavoriteCities up to its await (lines 154-168,
\* 179-181): every city's fetchCityWeather is started by favorites.map.
StationsMount ==
    LET favorites == getFavoriteCities(favStore) IN
    /\ ~stMounted
    /\ stMounted' = TRUE
    /\ stError' = NoStationError
    /\ stFavorites' = favorites
    /\ IF Len(favorites) = 0
       THEN /\ stWeather' = EmptyMap
            /\ stLoading' = FALSE
            /\ stLoad' = <<>>
       ELSE /\ stLoading' = TRUE
            /\ stLoad' = [i \in 1..Len(favorites) |->
                            [id |-> favorites[i].id,
                             lat |-> favorites[i].lat,
                             lon |-> favorites[i].lon,
                             settled |-> PendingRequest,
                             weather |-> PendingRequest]]
            /\ UNCHANGED stWeather
    /\ UNCHANGED <<favStore, stAdds, stSearchOpen, nextId, stAdded>>
    /\ StationsFrame

\* A fetchCityWeather of the load settles.  Promise.all resolves when the
\* last one has, and the rest of loadFavoriteCities runs (lines 166-176); it
\* would reject with the first entry that threw, and the catch block run.
LoadFetchSettles ==
    \E i \in 1..Len(stLoad) :
        \E settled \in StationFetches(stLoad[i]) :
            LET entries == [stLoad EXCEPT ![i].settled = settled,
                                          ![i].weather =
                                              fetchCityWeather(settled)]
            IN  /\ stLoad[i].weather = PendingRequest
                /\ stLoad' = entries
                /\ IF ~stLoading
                   THEN UNCHANGED <<stWeather, stLoading, stError>>
                   ELSE IF entries[i].weather.kind = "error"
                   THEN /\ stError' = entries[i].weather.message
                        /\ stLoading' = FALSE
                        /\ UNCHANGED stWeather
                   ELSE IF AllSettled(entries)
                   THEN /\ stWeather' = FromEntries(entries)
                        /\ stLoading' = FALSE
                        /\ UNCHANGED stError
                   ELSE UNCHANGED <<stWeather, stLoading, stError>>
                /\ UNCHANGED <<favStore, stMounted, stFavorites, stAdds,
                               stSearchOpen, nextId, stAdded>>
                /\ StationsFrame

\* The search field lists suggestions (lines 203-234, 316): the search of
\* the stations view, whose debounce is that of the weather page, has
\* answered a query of at least 2 characters.
StationsSuggest ==
    /\ stMounted
    /\ ~stSearchOpen
    /\ stSearchOpen' = TRUE
    /\ UNCHANGED <<favStore, stMounted, stFavorites, stWeather, stLoading,
                   stError, stLoad, stAdds, nextId, stAdded>>
    /\ StationsFrame

\* handleAddCity up to its await (lines 236-242): a suggestion is clicked.
\* The id that Date.now() and Math.random() give is a new one each time.
HandleAddCity ==
    \E cityData \in StationCityData, setItemOk \in BOOLEAN :
        LET r == addFavoriteCity(favStore, cityData, nextId, setItemOk)
            addedCity == [id |-> nextId, lat |-> cityData.lat,
                          lon |-> cityData.lon]
        IN  /\ stMounted /\ stSearchOpen
            /\ nextId <= NumIds
            /\ nextId' = IF r.outcome = "ok" THEN nextId + 1 ELSE nextId
            /\ favStore' = r.store
            /\ IF r.outcome = "ok"
               THEN /\ stError' = NoStationError
                    /\ stFavorites' = Append(stFavorites, addedCity)
                    /\ stAdds' = stAdds \cup {addedCity}
               ELSE /\ stError' = FavoritesErrorMessage(r.outcome)
                    /\ UNCHANGED <<stFavorites, stAdds>>
            /\ UNCHANGED <<stMounted, stWeather, stLoading, stLoad,
                           stSearchOpen, stAdded>>
            /\ StationsFrame

\* fetchCityWeather(addedCity) settles and handleAddCity runs to its end
\* (lines 242-247).
AddFetchSettles ==
    \E addedCity \in stAdds :
        \E settled \in StationFetches(addedCity) :
            LET weather == fetchCityWeather(settled) IN
            /\ stAdds' = stAdds \ {addedCity}
            /\ stAdded' = stAdded \cup {[id |-> addedCity.id,
                                          ok |-> settled.kind = "value"]}
            /\ IF weather.kind = "error"
               THEN /\ stError' = weather.message
                    /\ UNCHANGED <<stWeather, stSearchOpen>>
               ELSE /\ stWeather' = WithEntry(stWeather, addedCity.id, weather)
                    /\ stSearchOpen' = FALSE
                    /\ UNCHANGED stError
            /\ UNCHANGED <<favStore, stMounted, stFavorites, stLoading,
                           stLoad, nextId>>
            /\ StationsFrame

\* handleRemoveCity (lines 254-268): the button is on a card, and the cards
\* are shown when the view is not loading (lines 376, 395, 416).
HandleRemoveCity ==
    \E i \in 1..Len(stFavorites), setItemOk \in BOOLEAN :
        LET cityId == stFavorites[i].id
            r == removeFavoriteCity(favStore, cityId, setItemOk)
        IN  /\ stMounted /\ ~stLoading
            /\ favStore' = r.store
            /\ IF r.outcome = "ok"
               THEN /\ stError' = NoStationError
                    /\ stFavorites' = FilterOutId(stFavorites, cityId)
                    /\ stWeather' = WithoutEntry(stWeather, cityId)
               ELSE /\ stError' = FavoritesErrorMessage(r.outcome)
                    /\ UNCHANGED <<stFavorites, stWeather>>
            /\ UNCHANGED <<stMounted, stLoading, stLoad, stAdds,
                           stSearchOpen, nextId, stAdded>>
            /\ StationsFrame

\* The stored lists the view can find: cities with different coordinates and
\* the ids 1..k, given when they were added.
StationLists ==
    {l \in UNION {[1..k -> FavoriteCity] : k \in 0..NumIds} :
        /\ \A i \in 1..Len(l) :
              l[i].id = i /\ [lat |-> l[i].lat, lon |-> l[i].lon]
                                \in StationCityData
        /\ \A i, j \in 1..Len(l) : l[i].lat = l[j].lat => i = j}

\* useState initial values (lines 118-127), before the mount effect.
StationsConstructed ==
    /\ stMounted = FALSE
    /\ stFavorites = <<>>
    /\ stWeather = EmptyMap
    /\ stLoading = FALSE
    /\ stError = NoStationError
    /\ stLoad = <<>>
    /\ stAdds = {}
    /\ stSearchOpen = FALSE
    /\ stAdded = {}

StationsIdle == StationsConstructed /\ nextId = 1

StationsInit ==
    /\ StationsConstructed
    /\ \/ favStore \in {Absent, Unparsable} /\ nextId = 1
       \/ \E l \in StationLists :
             favStore = JSONStringify(l) /\ nextId = Len(l) + 1
    /\ favCall = NoCall /\ StationStoreIdle

(***************************************************************************)
(* Keyboard navigation of the dropdown (handleKeyDown, part_000 lines      *)
(* 683-718).  The handler is the input's onKeyDown (line 1042); the input  *)
(* is disabled while loading (line 1043).                                  *)
(***************************************************************************)

\* Lines 686-688.
KeyItems == IF TypingMode THEN searchSuggestions ELSE searchHistory

\* Line 690.
TotalItems == IF isActivelyTyping THEN Len(KeyItems) ELSE Len(KeyItems) + 1

\* The items the dropdown shows (lines 1078-1160): the suggestions, or the
\* current-location option and the recent searches.
ShownItems ==
    IF TypingMode THEN Len(searchSuggestions) ELSE Len(searchHistory) + 1

\* The page loaded from the snapshot of a visit that searched two places.
EarlierResult ==
    [kind |-> "data", location |-> [name |-> <<"B">>, country |-> <<"S">>]]

TwoSearchesStored ==
    <<cityIdentifier(StoredResult.location),
      cityIdentifier(EarlierResult.location)>>

PageLoadedWithTwoSearches ==
    /\ mounted = TRUE
    /\ cityName = StoredResult.location.name
    /\ loading = FALSE
    /\ error = NoError
    /\ weatherData = StoredResult
    /\ searchHistory = TwoSearchesStored
    /\ showHistory = FALSE
    /\ searchSuggestions = <<>>
    /\ isSearching = FALSE
    /\ isActivelyTyping = FALSE
    /\ gettingLocation = FALSE
    /\ highlightedIndex = -1
    /\ pendingDefault = 0
    /\ pendingSearch = 0
    /\ histStore = JSONDocument(TwoSearchesStored)
    /\ snapStore = JSONDocument(StoredResult)
    /\ recent = TwoSearchesStored
    /\ lastFetched = Null
    /\ suggestionFlights = <<>>

KeyFrame ==
    /\ UNCHANGED <<histStore, snapStore, mounted, cityName, loading, error,
                   weatherData, searchHistory, searchSuggestions, isSearching,
                   isActivelyTyping, gettingLocation, pendingDefault,
                   pendingSearch, recent, lastFetched, suggestionFlights>>
    /\ PageFrame

\* ArrowDown (lines 692-694).
KeyArrowDown ==
    /\ mounted /\ ~loading /\ showHistory
    /\ highlightedIndex' =
          IF highlightedIndex < TotalItems - 1 THEN highlightedIndex + 1 ELSE 0
    /\ UNCHANGED showHistory
    /\ KeyFrame

\* ArrowUp (lines 695-697).
KeyArrowUp ==
    /\ mounted /\ ~loading /\ showHistory
    /\ highlightedIndex' =
          IF highlightedIndex > 0 THEN highlightedIndex - 1 ELSE TotalItems - 1
    /\ UNCHANGED showHistory
    /\ KeyFrame

\* A plausible slip: the recent searches are indexed from the highlight
\* itself, without the place of the current-location option.
MutCommittedRecentOffByOne(index) == index + 1

\* Line 710: searchHistory[highlightedIndex - 1], counted from 1 here.
CommittedRecent(index) == index

\* Enter with a highlight (lines 698-712), when it commits something: the
\* handler it calls runs up to its first await.  A second current-location
\* invocation while one is running is not followed.
KeyEnter ==
    /\ mounted /\ ~loading /\ showHistory
    /\ highlightedIndex >= 0
    /\ IF TypingMode
       THEN /\ highlightedIndex < Len(searchSuggestions)
            /\ SuggestionClicked(searchSuggestions[highlightedIndex + 1])
       ELSE IF highlightedIndex = 0
       THEN HandleCurrentLocation
       ELSE /\ highlightedIndex <= Len(searchHistory)
            /\ CommittedRecent(highlightedIndex) \in 1..Len(searchHistory)
            /\ RecentSearchClicked(
                   searchHistory[CommittedRecent(highlightedIndex)])

\* Escape (lines 713-718).
KeyEscape ==
    /\ mounted /\ ~loading /\ showHistory
    /\ showHistory' = FALSE
    /\ highlightedIndex' = -1
    /\ KeyFrame

(***************************************************************************)
(* What the Weather page derives from weatherData.weather: the five-day    *)
(* forecast (part_000, lines 906-960) and the rain chance (lines 971-995). *)
(* Times are in hours: dt and the clock count hours since the epoch, tz is *)
(* the browser's offset from UTC.  Temperatures are in half degrees and    *)
(* pop in thousandths, so that Math.round has something to round.          *)
(***************************************************************************)

MaxDay == 6           \* forecast entries fall on the days 0..MaxDay
MaxEntries == 3       \* entries of a one-day forecast list
MaxTemp == 2          \* temperatures are -MaxTemp..MaxTemp half degrees
MaxRainEntries == 2   \* entries of a list handed to rainChance

HoursPerDay == 24

\* A field that is undefined, and a field that holds a number.
Undefined == [def |-> FALSE, v |-> 0]
Num(x) == [def |-> TRUE, v |-> x]

\* a || b: b when a is undefined or 0, a otherwise.
Or(a, b) == IF a.def /\ a.v # 0 THEN a ELSE b

Abs(x) == IF x < 0 THEN 0 - x ELSE x

\* Math.round of a number of half degrees divided by two.
RoundHalf(t) == (t + 1) \div 2

\* Math.round(sum / count), the sum being of pop * 100 with pop in
\* thousandths: floor(sum / (10 * count) + 1/2).
RoundMeanPop(sum, count) == (2 * sum + 10 * count) \div (20 * count)

\* Math.round(pop * 100) with pop in thousandths.
RoundPop(pop) == (pop + 5) \div 10

RECURSIVE SumSeq(_)
SumSeq(s) == IF s = <<>> THEN 0 ELSE Head(s) + SumSeq(Tail(s))

\* getHours() of new Date(dt * 1000), and the instant of the local
\* midnight that setHours(0, 0, 0, 0) moves the date to.
LocalHour(dt) == (dt + tz) % HoursPerDay
LocalMidnight(dt) == ((dt + tz) \div HoursPerDay) * HoursPerDay - tz

\* toISOString().split('T')[0]: the UTC calendar day of an instant.
DayKey(instant) == instant \div HoursPerDay

\* The distance from noon of a day that has no entry yet (Infinity): larger
\* than any distance between two hours of a day.
Infinity == 24
Noon == 12
NullWeather == [id |-> 0]

\* The body of the forEach (lines 914-945), on dailyData kept as the list
\* of its values in insertion order.
NewDay(forecast) ==
    [key |-> DayKey(LocalMidnight(forecast.dt)),
     date |-> LocalMidnight(forecast.dt),
     temps |-> <<>>, pop |-> <<>>,
     weather |-> NullWeather, noonTimeDiff |-> Infinity]

\* A plausible slip: <= instead of < lets a later entry win a tie.
MutCloserOrEqual(timeDiffFromNoon, noonTimeDiff) ==
    timeDiffFromNoon <= noonTimeDiff

CloserToNoon(timeDiffFromNoon, noonTimeDiff) ==
    timeDiffFromNoon < noonTimeDiff

AddForecast(dailyData, forecast) ==
    LET dayKey == DayKey(LocalMidnight(forecast.dt))
        known == \E i \in 1..Len(dailyData) : dailyData[i].key = dayKey
        data == IF known THEN dailyData
                ELSE Append(dailyData, NewDay(forecast))
        at == CHOOSE i \in 1..Len(data) : data[i].key = dayKey
        day == data[at]
        timeDiffFromNoon == Abs(LocalHour(forecast.dt) - Noon)
        closer == CloserToNoon(timeDiffFromNoon, day.noonTimeDiff)
        temp == Or(forecast.mainTemp, forecast.temp)
    IN  [data EXCEPT ![at] =
            [key |-> day.key,
             date |-> day.date,
             noonTimeDiff |-> IF closer THEN timeDiffFromNoon
                              ELSE day.noonTimeDiff,
             weather |-> IF closer THEN forecast.weather ELSE day.weather,
             temps |-> IF temp.def THEN Append(day.temps, temp.v)
                       ELSE day.temps,
             pop |-> IF forecast.pop.def
                     THEN Append(day.pop, forecast.pop.v)
                     ELSE day.pop]]

RECURSIVE DailyData(_, _)
DailyData(forecastList, n) ==
    IF n = 0 THEN <<>>
    ELSE AddForecast(DailyData(forecastList, n - 1), forecastList[n])

\* Array.prototype.sort((a, b) => a.date - b.date): stable, ascending.
RECURSIVE InsertByDate(_, _)
InsertByDate(sorted, day) ==
    IF sorted = <<>> THEN <<day>>
    ELSE IF day.date < Head(sorted).date THEN <<day>> \o sorted
         ELSE <<Head(sorted)>> \o InsertByDate(Tail(sorted), day)

RECURSIVE SortByDate(_, _)
SortByDate(days, n) ==
    IF n = 0 THEN <<>> ELSE InsertByDate(SortByDate(days, n - 1), days[n])

\* today: new Date() moved to its local midnight (lines 911-912).
Today == LocalMidnight(clock)

\* A plausible slip: the days before today are not filtered out.
MutKeepsPastDays(day) == TRUE

NotBeforeToday(day) == day.date >= Today

\* slice(0, 5) of line 950.
ForecastDays == 5

\* The map of lines 951-959 (dayName is the weekday of date and is left out).
DayEntry(day, index) ==
    [index |-> index,
     date |-> day.date,
     minTemp |-> IF Len(day.temps) > 0
                 THEN RoundHalf(MinOf(Range(day.temps))) ELSE 0,
     maxTemp |-> IF Len(day.temps) > 0
                 THEN RoundHalf(MaxOf(Range(day.temps))) ELSE 0,
     pop |-> IF Len(day.pop) > 0
             THEN RoundMeanPop(SumSeq(day.pop), Len(day.pop)) ELSE 0,
     weather |-> day.weather]

\* The five-day forecast of a forecast list (lines 909-959).
FiveDay(forecastList) ==
    LET dailyData == DailyData(forecastList, Len(forecastList))
        sorted == SortByDate(dailyData, Len(dailyData))
        kept == Take(SelectSeq(sorted, NotBeforeToday), ForecastDays)
    IN  [i \in 1..Len(kept) |-> DayEntry(kept[i], i - 1)]

\* slice(0, 11) of line 879.
HourlyEntries == 11

\* forecast.dt >= now of line 878.
NotBeforeNow(forecast) == forecast.dt >= clock

\* The map of lines 880-893: the time is the local hour of the entry, the
\* temperature Math.round(forecast.main?.temp || forecast.temp || 0).
HourEntry(forecast) ==
    [time |-> LocalHour(forecast.dt),
     temp |-> RoundHalf(Or(Or(forecast.mainTemp, forecast.temp), Num(0)).v),
     weather |-> forecast.weather]

\* The hourly forecast of a forecast list (lines 873-894).
Hourly(forecastList) ==
    LET kept == Take(SelectSeq(forecastList, NotBeforeNow), HourlyEntries)
    IN  [i \in 1..Len(kept) |-> HourEntry(kept[i])]

\* The reduce of lines 978-983 on a list that is not empty: the entry
\* nearest to now, the first such entry on ties.
\* A plausible slip: <= instead of < lets the last of several nearest win.
MutNearerOrEqual(forecastDiff, closestDiff) == forecastDiff <= closestDiff

Nearer(forecastDiff, closestDiff) == forecastDiff < closestDiff

RECURSIVE Closest(_, _)
Closest(forecastList, n) ==
    IF n = 1 THEN forecastList[1]
    ELSE LET closest == Closest(forecastList, n - 1)
             forecast == forecastList[n]
         IN  IF Nearer(Abs(forecast.dt - clock), Abs(closest.dt - clock))
             THEN forecast ELSE closest

\* weatherData.weather.current: missing while there is no weather data, or
\* an object whose rain field is an object or null (getWeatherData,
\* weatherApi.js lines 137-153).
NoCurrent == [kind |-> "none", rain |-> FALSE]
CurrentConditions == [kind : {"current"}, rain : BOOLEAN]

\* The constant reported for rain without a pop value (line 991).
RAIN_WITHOUT_POP == 10

\* rainChance (lines 971-995).
RainChance(forecastList, current) ==
    IF current.kind = "none" THEN 0
    ELSE IF forecastList # <<>>
            /\ Closest(forecastList, Len(forecastList)).pop.def
         THEN RoundPop(Closest(forecastList, Len(forecastList)).pop.v)
         ELSE IF current.rain THEN RAIN_WITHOUT_POP ELSE 0

\* The memos before the page has rendered with the weather data.
NoHourly == [done |-> FALSE, hours |-> <<>>]
NoForecast == [done |-> FALSE, days |-> <<>>]
NoRainChance == [done |-> FALSE, value |-> 0]
NoPath == [done |-> FALSE, path |-> <<>>]

ForecastFrame ==
    UNCHANGED <<favVars, pageVars, addLog, dbVars, geoVars, clientVars,
                stVars, iconCode, iconPath>>

\* The page renders with the weather data: both memos are computed, and
\* Date.now() is read, in the same render.
RenderForecast ==
    /\ ~fiveDayForecast.done
    /\ hourlyForecast' = [done |-> TRUE, hours |-> Hourly(daily)]
    /\ fiveDayForecast' = [done |-> TRUE, days |-> FiveDay(daily)]
    /\ rainChance' = [done |-> TRUE, value |-> RainChance(daily, conditions)]
    /\ UNCHANGED <<daily, conditions, clock, tz>>
    /\ ForecastFrame

(***************************************************************************)
(* Weather icons (part_000, lines 1-60).  An icon code is the sequence of  *)
(* its characters; a path is the directory, the characters of a code and   *)
(* the extension.                                                          *)
(***************************************************************************)

MaxTens == 5        \* icon families are "00" .. "59"

Digits == <<"0", "1", "2", "3", "4", "5", "6", "7", "8", "9">>

NO_DAY_NIGHT_VARIANTS ==
    {<<"0", "4">>, <<"0", "9">>, <<"1", "0">>, <<"1", "1">>, <<"1", "3">>,
     <<"1", "5">>, <<"2", "2">>, <<"3", "0">>, <<"3", "1">>, <<"3", "2">>,
     <<"3", "3">>, <<"3", "4">>, <<"4", "6">>, <<"4", "7">>, <<"4", "8">>,
     <<"4", "9">>, <<"5", "0">>}

ICON_DIRECTORY == <<"/src/assets/weather-icons/">>
ICON_EXTENSION == <<".svg">>
DEFAULT_FALLBACK == <<"0", "1", "d">>

\* String.prototype.slice(0, -1) and slice(-1).
AllButLast(text) == SubSeq(text, 1, Len(text) - 1)
LastOf(text) == SubSeq(text, Len(text), Len(text))

\* A plausible slip: only the day suffix is recognised.
MutDaySuffixOnly(suffix) == suffix = <<"d">>

IsDayOrNight(suffix) == suffix = <<"d">> \/ suffix = <<"n">>

getWeatherIconPath(code, fallback) ==
    IF code = <<>> THEN ICON_DIRECTORY \o fallback \o ICON_EXTENSION
    ELSE LET baseCode == AllButLast(code)
             suffix == LastOf(code)
         IN  IF baseCode \in NO_DAY_NIGHT_VARIANTS /\ IsDayOrNight(suffix)
             THEN ICON_DIRECTORY \o baseCode \o ICON_EXTENSION
             ELSE ICON_DIRECTORY \o code \o ICON_EXTENSION

\* The codes handed to getWeatherIconPath: none, a family of two digits, or
\* a family followed by d or n.
IconFamilies == {<<Digits[t + 1], Digits[u + 1]>> : t \in 0..MaxTens, u \in 0..9}

IconCodes ==
    {<<>>} \cup IconFamilies
           \cup {family \o <<suffix>> :
                    family \in IconFamilies, suffix \in {"d", "n"}}

IconFrame ==
    UNCHANGED <<favVars, pageVars, addLog, dbVars, geoVars, clientVars,
                stVars, daily, conditions, clock, tz, hourlyForecast,
                fiveDayForecast, rainChance>>

\* A component asks for the path of its icon code, with the default
\* fallback.
GetWeatherIconPath ==
    /\ ~iconPath.done
    /\ iconPath' = [done |-> TRUE,
                    path |-> getWeatherIconPath(iconCode, DEFAULT_FALLBACK)]
    /\ UNCHANGED iconCode
    /\ IconFrame

ViewIdle ==
    /\ daily = <<>>
    /\ conditions = NoCurrent
    /\ clock = 0
    /\ tz = 0
    /\ hourlyForecast = NoHourly
    /\ fiveDayForecast = NoForecast
    /\ rainChance = NoRainChance
    /\ iconCode = <<>>
    /\ iconPath = NoPath

(***************************************************************************)
(* Specifications.                                                         *)
(***************************************************************************)

InitFav ==
    FavInit /\ PageIdle /\ addLog = <<>> /\ hasApiKey = TRUE /\ DebounceIdle
    /\ geoSupported = TRUE /\ GeoIdle /\ ClientIdle
    /\ StationsIdle
    /\ ViewIdle

NextFav == AddFavoriteCity \/ RemoveFavoriteCity \/ ClearAllFavorites

SpecFav == InitFav /\ [][NextFav]_vars

\* The storage helper over every item an earlier visit can have left.
InitStationStore ==
    /\ stationsItem \in {Absent, Unparsable, NotAnArray}
                        \cup {JSONStringify(l) : l \in StationStoreLists}
    /\ stationCall = NoStationCall
    /\ favStore = Absent /\ favCall = NoCall
    /\ PageIdle /\ addLog = <<>> /\ hasApiKey = TRUE /\ DebounceIdle
    /\ geoSupported = TRUE /\ GeoIdle /\ ClientIdle
    /\ StationsIdle
    /\ ViewIdle

NextStationStore == AddStation \/ RemoveStation

SpecStationStore == InitStationStore /\ [][NextStationStore]_vars

InitHistory ==
    FavIdle /\ PageIdle /\ addLog = <<>> /\ hasApiKey = TRUE /\ DebounceIdle
    /\ geoSupported = TRUE /\ GeoIdle /\ ClientIdle
    /\ StationsIdle
    /\ ViewIdle

NextHistory == AddToSearchHistoryCall

SpecHistory == InitHistory /\ [][NextHistory]_vars

InitWeather ==
    FavIdle /\ PageInit /\ addLog = <<>> /\ hasApiKey = TRUE /\ DebounceIdle
    /\ geoSupported = TRUE /\ GeoIdle /\ ClientIdle
    /\ StationsIdle
    /\ ViewIdle

NextWeather ==
    \/ Mount
    \/ HandleVisibilityChange
    \/ DefaultLoadSucceeds
    \/ DefaultLoadFails
    \/ HandleInputFocus
    \/ HandleCtrlK
    \/ ClearSearchHistory
    \/ HandleSearch
    \/ HandleRecentSearchClick
    \/ SearchSucceeds
    \/ SearchFails

SpecWeather == InitWeather /\ [][NextWeather]_vars

InitDebounce ==
    /\ FavIdle /\ addLog = <<>>
    /\ PageLoadedFromSnapshot
    /\ hasApiKey \in BOOLEAN
    /\ DebounceIdle
    /\ geoSupported = TRUE /\ GeoIdle /\ ClientIdle
    /\ StationsIdle
    /\ ViewIdle

NextDebounce == HandleInputChange \/ Tick \/ TimerFires \/ SuggestResponse

SpecDebounce == InitDebounce /\ [][NextDebounce]_vars

\* The search field when the browser runs every timer that is due and every
\* searchCities request settles: time goes on while a quiet period runs, a
\* due timer's callback runs, a request in flight is answered.
SpecDebounceFair ==
    /\ SpecDebounce
    /\ WF_vars(Tick)
    /\ WF_vars(TimerFires)
    /\ WF_vars(SuggestResponse)

InitGeo ==
    /\ FavIdle /\ addLog = <<>>
    /\ PageLoadedFromSnapshot
    /\ hasApiKey \in BOOLEAN
    /\ DebounceIdle
    /\ geoSupported \in BOOLEAN
    /\ GeoIdle
    /\ ClientIdle
    /\ StationsIdle
    /\ ViewIdle

NextGeo ==
    \/ HandleCurrentLocation
    \/ PositionResolves
    \/ PositionRejects
    \/ ReverseGeocodeSettles
    \/ LocationWeatherSucceeds
    \/ LocationWeatherFails

SpecGeo == InitGeo /\ [][NextGeo]_vars

InitClient ==
    /\ FavIdle /\ addLog = <<>>
    /\ PageIdle
    /\ hasApiKey \in BOOLEAN
    /\ DebounceIdle
    /\ geoSupported = TRUE /\ GeoIdle
    /\ ClientIdle
    /\ StationsIdle
    /\ ViewIdle

NextClient ==
    \/ ClientCalls
    \/ GeocodingSettles
    \/ CurrentWeatherSettles
    \/ ForecastSettles

SpecClient == InitClient /\ [][NextClient]_vars

InitStations ==
    /\ StationsInit
    /\ PageIdle /\ addLog = <<>>
    /\ hasApiKey = TRUE /\ DebounceIdle
    /\ geoSupported = TRUE /\ GeoIdle
    /\ ClientIdle
    /\ ViewIdle

NextStations ==
    \/ StationsMount
    \/ LoadFetchSettles
    \/ StationsSuggest
    \/ HandleAddCity
    \/ AddFetchSettles
    \/ HandleRemoveCity

SpecStations == InitStations /\ [][NextStations]_vars

\* The Weather page with its three kinds of primary fetch: by city name, by
\* a suggestion's coordinates, by the current location.  The page starts
\* before its mount effect with a stored snapshot, or with a suggestion
\* displayed.
InitPrimary ==
    /\ FavIdle /\ addLog = <<>>
    /\ \/ PageBeforeMount /\ hasApiKey = TRUE /\ DebounceIdle
       \/ SuggestionsDisplayed
    /\ geoSupported = TRUE /\ GeoIdle
    /\ ClientIdle
    /\ StationsIdle
    /\ ViewIdle

\* A primary fetch starts when none is in flight, and a result is applied
\* while the history stays within MaxFollowedHistory.
NextPrimary ==
    \/ Mount
    \/ HandleVisibilityChange
    \/ HandleSearch /\ NoFetchInFlight
    \/ SearchSucceeds /\ HistoryFollowed'
    \/ SearchFails
    \/ HandleSuggestionClick /\ NoFetchInFlight
    \/ SuggestionFetchSucceeds /\ HistoryFollowed'
    \/ SuggestionFetchFails
    \/ HandleCurrentLocation /\ NoFetchInFlight
    \/ PositionResolves
    \/ PositionRejects
    \/ ReverseGeocodeSettles
    \/ LocationWeatherSucceeds /\ HistoryFollowed'
    \/ LocationWeatherFails

SpecPrimary == InitPrimary /\ [][NextPrimary]_vars

\* The three stored keys as an earlier visit, or anything else writing to
\* localStorage, can have left them: absent, a text JSON.parse rejects, or
\* a document of the application.  The favorites service and the page's
\* initial load read them and add to them.
InitStorage ==
    /\ favStore \in {Absent, Unparsable} /\ favCall = NoCall /\ StationStoreIdle
    /\ PageConstructed
    /\ histStore \in {Absent, Unparsable,
                      JSONDocument(<<cityIdentifier(StoredResult.location)>>)}
    /\ snapStore \in {Absent, Unparsable, JSONDocument(StoredResult)}
    /\ recent = readHistoryFromStorage(histStore)
    /\ addLog = <<>>
    /\ hasApiKey = TRUE /\ DebounceIdle
    /\ geoSupported = TRUE /\ GeoIdle
    /\ ClientIdle
    /\ StationsIdle
    /\ ViewIdle

\* The favorites service is followed up to its first stored list.
NextStorage ==
    \/ AddFavoriteCity /\ favStore \in {Absent, Unparsable}
    \/ Mount
    \/ HandleVisibilityChange
    \/ DefaultLoadSucceeds
    \/ DefaultLoadFails

SpecStorage == InitStorage /\ [][NextStorage]_vars

\* The search field with its dropdown: typing, the debounced suggestions,
\* focus and the keys.  What Enter starts is not followed further.
InitKeys ==
    /\ FavIdle /\ addLog = <<>>
    /\ PageLoadedFromSnapshot \/ PageLoadedWithTwoSearches
    /\ hasApiKey = TRUE
    /\ DebounceIdle
    /\ geoSupported = TRUE /\ GeoIdle
    /\ ClientIdle
    /\ StationsIdle
    /\ ViewIdle

NextKeys ==
    \/ HandleInputFocus
    \/ HandleInputChange
    \/ Tick
    \/ TimerFires
    \/ SuggestResponse
    \/ KeyArrowDown
    \/ KeyArrowUp
    \/ KeyEnter
    \/ KeyEscape

SpecKeys == InitKeys /\ [][NextKeys]_vars

\* Two primary fetches of the page at once.  The page shows the suggestion
\* for "Lon"; the dropdown is in typing mode, so the first fetch a step can
\* start is the one of a click on the suggestion, and every search starts
\* after it: through Ctrl/Cmd+K, which opens the dropdown while the input is
\* disabled, and a click on a recent search, whose button is not disabled
\* while the page loads (lines 1143-1155).
InitRace ==
    /\ FavIdle /\ addLog = <<>>
    /\ SuggestionsDisplayed
    /\ geoSupported = TRUE /\ GeoIdle
    /\ ClientIdle
    /\ StationsIdle
    /\ ViewIdle

NextRace ==
    \/ HandleSuggestionClick
    \/ HandleCtrlK
    \/ HandleRecentSearchClick
    \/ SearchSucceeds
    \/ SearchFails
    \/ SuggestionFetchSucceeds
    \/ SuggestionFetchFails

SpecRace == InitRace /\ [][NextRace]_vars

\* The forecast lists the memos are computed from.  An entry as the
\* forecast endpoint sends it carries main.temp; its weather[0] is told
\* apart from the others' by its id, the entry's place in the list.
BaseDay == 3
Offsets == {-5, -3, 0, 3, 5}
Temps == (0 - MaxTemp)..MaxTemp
Pops == {0, 5, 420, 1000}

Forecast(dt, mainTemp, temp, pop) ==
    [dt |-> dt, mainTemp |-> mainTemp, temp |-> temp, pop |-> pop,
     weather |-> NullWeather]

Tagged(list) ==
    [i \in 1..Len(list) |-> [list[i] EXCEPT !.weather = [id |-> i]]]

RECURSIVE Ascending(_)
Ascending(S) ==
    IF S = {} THEN <<>> ELSE <<MinOf(S)>> \o Ascending(S \ {MinOf(S)})

RECURSIVE Descending(_)
Descending(S) ==
    IF S = {} THEN <<>> ELSE <<MaxOf(S)>> \o Descending(S \ {MaxOf(S)})

\* One entry per day of a list of days, at a given hour (UTC) of the day.
AtHour(days, hour) ==
    [i \in 1..Len(days) |->
        Forecast(days[i] * HoursPerDay + hour, Num(2), Undefined,
                 Undefined)]

\* A list over several days, in ascending or descending order of time, with
\* one or two entries per day.
ManyDayList(days, twice) ==
    Tagged(AtHour(days, 3) \o (IF twice THEN AtHour(days, 21) ELSE <<>>))

\* A list of entries three hours apart, as the forecast endpoint steps, in
\* ascending or descending order of time.
MaxSteps == 12

StepList(n, descending) ==
    Tagged([i \in 1..n |->
               Forecast(BaseDay * HoursPerDay
                           + 3 * (IF descending THEN n - i ELSE i - 1),
                        Num(2), Undefined, Undefined)])

\* A list of one day whose entries carry a temperature or none, under
\* main.temp (the forecast endpoint's shape) or under temp.
TempFields == {Undefined} \cup {Num(t) : t \in Temps}

OneDayList(fields, nested) ==
    Tagged([i \in 1..Len(fields) |->
               Forecast(BaseDay * HoursPerDay + 3 * i,
                        IF nested THEN fields[i] ELSE Undefined,
                        IF nested THEN Undefined ELSE fields[i],
                        Undefined)])

\* A list of entries around noon of two days, in any order.
NoonSlots ==
    {(BaseDay + d) * HoursPerDay + h : d \in {0, 1}, h \in {6, 9, 12, 15}}

NoonList(slots) ==
    Tagged([i \in 1..Len(slots) |->
               Forecast(slots[i], Num(2), Undefined, Undefined)])

\* A list of entries near the clock, with and without a pop value.
RainSlots == {BaseDay * HoursPerDay + h : h \in {10, 12, 14}}
RainClocks == {BaseDay * HoursPerDay + h : h \in {11, 12}}
PopFields == {Undefined} \cup {Num(p) : p \in Pops}

RainList(entries) ==
    Tagged([i \in 1..Len(entries) |->
               Forecast(entries[i].dt, Num(2), Undefined, entries[i].pop)])

InitForecast ==
    /\ FavIdle /\ addLog = <<>>
    /\ PageConstructed
    /\ favStore = Absent /\ histStore = Absent /\ snapStore = Absent
    /\ recent = <<>>
    /\ hasApiKey = TRUE
    /\ DebounceIdle
    /\ geoSupported = TRUE /\ GeoIdle
    /\ ClientIdle
    /\ StationsIdle
    /\ hourlyForecast = NoHourly
    /\ fiveDayForecast = NoForecast
    /\ rainChance = NoRainChance
    /\ iconCode = <<>>
    /\ iconPath = NoPath
    /\ \/ /\ \E S \in SUBSET (0..MaxDay), descending, twice \in BOOLEAN :
                daily = ManyDayList(IF descending THEN Descending(S)
                                    ELSE Ascending(S), twice)
          /\ clock \in {2 * HoursPerDay + 1, 2 * HoursPerDay + 23}
          /\ tz \in Offsets
          /\ conditions = [kind |-> "current", rain |-> FALSE]
       \/ /\ \E n \in 0..MaxEntries :
                \E fields \in [1..n -> TempFields], nested \in BOOLEAN :
                    daily = OneDayList(fields, nested)
          /\ clock = BaseDay * HoursPerDay
          /\ tz = 0
          /\ conditions = [kind |-> "current", rain |-> FALSE]
       \/ /\ \E n \in 1..MaxEntries :
                \E slots \in [1..n -> NoonSlots] :
                    /\ \A i, j \in 1..n : slots[i] = slots[j] => i = j
                    /\ daily = NoonList(slots)
          /\ clock = BaseDay * HoursPerDay
          /\ tz \in Offsets
          /\ conditions = [kind |-> "current", rain |-> FALSE]
       \/ /\ \E n \in 0..MaxRainEntries :
                \E entries \in [1..n -> [dt : RainSlots, pop : PopFields]] :
                    daily = RainList(entries)
          /\ clock \in RainClocks
          /\ tz = 0
          /\ conditions \in CurrentConditions
       \/ /\ daily = <<>>
          /\ clock \in RainClocks
          /\ tz = 0
          /\ conditions = NoCurrent
       \/ /\ \E n \in 0..MaxSteps, descending \in BOOLEAN :
                daily = StepList(n, descending)
          /\ clock \in {BaseDay * HoursPerDay - 1, BaseDay * HoursPerDay + 3,
                        BaseDay * HoursPerDay + 4}
          /\ tz \in {0, 5}
          /\ conditions = [kind |-> "current", rain |-> FALSE]

NextForecast ==
    \/ RenderForecast

SpecForecast == InitForecast /\ [][NextForecast]_vars

InitIcons ==
    /\ FavIdle /\ addLog = <<>>
    /\ PageConstructed
    /\ favStore = Absent /\ histStore = Absent /\ snapStore = Absent
    /\ recent = <<>>
    /\ hasApiKey = TRUE
    /\ DebounceIdle
    /\ geoSupported = TRUE /\ GeoIdle
    /\ ClientIdle
    /\ StationsIdle
    /\ daily = <<>> /\ conditions = NoCurrent /\ clock = 0 /\ tz = 0
    /\ hourlyForecast = NoHourly
    /\ fiveDayForecast = NoForecast
    /\ rainChance = NoRainChance
    /\ iconCode \in IconCodes
    /\ iconPath = NoPath

NextIcons ==
    \/ GetWeatherIconPath

SpecIcons == InitIcons /\ [][NextIcons]_vars

(***************************************************************************)
(* Properties of the favorite-cities service (SpecFav).                    *)
(***************************************************************************)

PersistedFavorites == getFavoriteCities(favStore)

SameCoordinates(a, b) == a.lat = b.lat /\ a.lon = b.lon

\* C1: after any sequence of addFavoriteCity, removeFavoriteCity and
\* clearAllFavorites calls, each succeeding or raising, from an absent or
\* duplicate-free stored list, no two entries of the persisted favorites
\* list have the same (lat, lon) pair.
C1_NoDuplicateCoordinates ==
    \A i, j \in 1..Len(PersistedFavorites) :
        SameCoordinates(PersistedFavorites[i], PersistedFavorites[j]) => i = j

\* An add has just succeeded and left a list of two or more favorites.
C1_Witness ==
    /\ favCall.op = "add" /\ favCall.outcome = "ok"
    /\ Len(PersistedFavorites) >= 2

\* C2: addFavoriteCity with the (lat, lon) of an entry already persisted
\* raises the 'already in your favorites' error and leaves the stored
\* document as it was: same entries, same order, no write.
C2_DuplicateAddRejected ==
    [][(/\ favCall'.op = "add"
        /\ \E i \in 1..Len(PersistedFavorites) :
               SameCoordinates(PersistedFavorites[i], favCall'))
       => (/\ favCall'.outcome = "already"
           /\ ~favCall'.wrote
           /\ favStore' = favStore)]_vars

\* An add of coordinates that are already stored has just been refused.
C2_Witness ==
    /\ favCall.op = "add" /\ favCall.outcome = "already"
    /\ \E i \in 1..Len(PersistedFavorites) :
           SameCoordinates(PersistedFavorites[i], favCall)

(***************************************************************************)
(* Properties of the search history (SpecWeather, SpecHistory).            *)
(***************************************************************************)

PersistedHistory == readHistoryFromStorage(histStore)

PositionIn(s, x) == CHOOSE p \in 1..Len(s) : s[p] = x

\* Every entry of h was added since the history was last empty, and an entry
\* stands before another only if it was added more recently.
NewestFirst(h) ==
    /\ Range(h) \subseteq Range(recent)
    /\ \A i, j \in 1..Len(h) :
           i < j => PositionIn(recent, h[i]) < PositionIn(recent, h[j])

WellFormedHistory(h) ==
    /\ Len(h) <= MAX_HISTORY_ITEMS
    /\ NoDuplicates(h)
    /\ NewestFirst(h)

\* C3: in every reachable state of the weather page the search history, in
\* memory and as persisted, has at most 5 entries, no two equal entries, and
\* is ordered newest first.
C3_HistoryWellFormed ==
    /\ WellFormedHistory(searchHistory)
    /\ WellFormedHistory(PersistedHistory)

\* A sixth identifier has been added to a full history, in memory and stored.
C3_Witness ==
    /\ mounted
    /\ Len(recent) = MAX_HISTORY_ITEMS + 1
    /\ Len(searchHistory) = MAX_HISTORY_ITEMS
    /\ PersistedHistory = searchHistory

\* The place of the last addition of x in the log.
LastIndex(log, x) ==
    CHOOSE i \in 1..Len(log) :
        log[i] = x /\ \A j \in (i + 1)..Len(log) : log[j] # x

\* C4: after any sequence of addToSearchHistory calls the history is the
\* distinct identifiers added, ordered by their most recent addition, newest
\* first, cut to the first 5: it has no second copy of an identifier, and of
\* 6 distinct identifiers the one added longest ago is gone.
C4_HistoryIsMostRecentFive ==
    LET added == Range(addLog)
        h == searchHistory
    IN  /\ Len(h) = IF Cardinality(added) < MAX_HISTORY_ITEMS
                    THEN Cardinality(added) ELSE MAX_HISTORY_ITEMS
        /\ NoDuplicates(h)
        /\ Range(h) \subseteq added
        /\ \A i, j \in 1..Len(h) :
               i < j => LastIndex(addLog, h[i]) > LastIndex(addLog, h[j])
        /\ \A x \in added \ Range(h) : \A i \in 1..Len(h) :
               LastIndex(addLog, x) < LastIndex(addLog, h[i])

\* Six distinct identifiers have been added: the first one is gone.
C4_Witness ==
    /\ Len(addLog) = MAX_HISTORY_ITEMS + 1
    /\ Cardinality(Range(addLog)) = MAX_HISTORY_ITEMS + 1
    /\ addLog[1] \notin Range(searchHistory)


(***************************************************************************)
(* The debounced suggestion search.                                        *)
(***************************************************************************)

ValidQuery(text) == Len(Trim(text)) >= 2

\* C5: a burst of keystrokes, each arriving before the quiet period of the
\* previous one has elapsed, issues at most one searchCities call; the call
\* it issues carries the text left by the last keystroke, whose trimmed
\* length is at least 2; and once the timer of such a text is no longer
\* pending the call has been issued.
C5_OneFetchPerBurst ==
    /\ burstFetches <= 1
    /\ burstFetches = 1 => (burstQuery = cityName /\ ValidQuery(cityName))
    /\ (isActivelyTyping /\ ValidQuery(cityName) /\ timers = NoTimers)
          => burstFetches = 1

\* Two keystrokes in one burst, and the one request in flight is for the
\* text of the second.
C5_Witness ==
    /\ burstKeys = 2
    /\ burstFetches = 1
    /\ cityName = <<"L", "o", "n">>
    /\ suggestFlights = <<cityName>>

\* C6: once every issued searchCities call has completed, the suggestions a
\* result has put on display are those of the most recently issued call.
C6_LatestResultShown ==
    (suggestFlights = <<>> /\ shownFromResponse) => shownLatest

\* C7: at most one searchCities request is in flight at any moment.
C7_AtMostOneInFlight == Len(suggestFlights) <= 1

\* C8: right after a keystroke that leaves a text whose trimmed length is
\* below 2, no timer is pending, no suggestion is shown and the searching
\* flag is off.
C8_ShortQueryCancels ==
    (justTyped /\ ~ValidQuery(cityName)) =>
        /\ timers = NoTimers
        /\ searchSuggestions = <<>>
        /\ ~isSearching

\* A short text typed within the quiet period of a previous keystroke, while
\* a request of an earlier burst is still in flight.
C8_Witness ==
    /\ justTyped
    /\ cityName = <<" ", "L", " ">>
    /\ burstKeys = 2
    /\ timers = NoTimers
    /\ suggestFlights # <<>>

(***************************************************************************)
(* The current-location lookup.                                            *)
(***************************************************************************)

OutstandingAttempts ==
    {i \in 1..Len(attempts) : attempts[i].kind = "outstanding"}

\* C9: an invocation of handleCurrentLocation never has two attempts
\* outstanding; it issues the low-accuracy attempt first and the
\* high-accuracy attempt only once the first has settled without a position;
\* an attempt that gave a position is the last one issued; so there are at
\* most two attempts.
C9_AttemptsSequential ==
    /\ Len(attempts) <= 2
    /\ Cardinality(OutstandingAttempts) <= 1
    /\ Len(attempts) >= 1 => attempts[1].options = GeolocationAttempts[1]
    /\ Len(attempts) = 2 =>
          /\ attempts[2].options = GeolocationAttempts[2]
          /\ attempts[1].kind \in {"rejected", "empty"}
    /\ \A i \in 1..Len(attempts) :
          attempts[i].kind = "position" => i = Len(attempts)
    /\ geoPc = "attempt" <=> OutstandingAttempts # {}

\* The first attempt was rejected, the second gave a position and the
\* invocation has gone on to its requests.
C9_Witness ==
    /\ Len(attempts) = 2
    /\ attempts[1].kind = "rejected"
    /\ attempts[2].kind = "position"
    /\ geoPc = "weather"

BothAttemptsRejected ==
    /\ Len(attempts) = 2
    /\ attempts[1].kind = "rejected"
    /\ attempts[2].kind = "rejected"

\* C10: when both attempts have been rejected the invocation has ended
\* without any reverse geocoding or weather request, the error caught and
\* shown is the one of the second attempt, and the generic error is caught
\* only when no attempt error was captured.
C10_LastFailureSurfaced ==
    /\ BothAttemptsRejected =>
          /\ geoPc = "idle"
          /\ geoRequests = <<>>
          /\ caughtError = AttemptError(attempts[2].code, 2)
          /\ error = LocationErrorMessage(caughtError)
    /\ caughtError = GenericLocationError =>
          /\ lastError = NoGeoError
          /\ \A i \in 1..Len(attempts) : attempts[i].kind = "empty"

\* The first attempt timed out, the second was denied, and the message shown
\* is the one for a denial.
C10_Witness ==
    /\ BothAttemptsRejected
    /\ attempts[1].code = 3
    /\ attempts[2].code = 1
    /\ error = LocationErrorMessage(AttemptError(1, 2))
    /\ ~gettingLocation

\* Neither attempt gave a position or an error, and the generic error is the
\* one caught.
C10_GenericWitness ==
    /\ caughtError = GenericLocationError
    /\ Len(attempts) = 2
    /\ error = GenericLocationError.message

WeatherRequests ==
    {i \in 1..Len(geoRequests) : geoRequests[i].kind = "weather"}

PositionAttempts == {i \in 1..Len(attempts) : attempts[i].kind = "position"}

\* C11: every weather request of an invocation carries the latitude and
\* longitude of the first attempt that gave a position.
C11_WeatherUsesAttemptCoords ==
    \A r \in WeatherRequests :
        \E i \in PositionAttempts :
            /\ \A j \in PositionAttempts : i <= j
            /\ geoRequests[r].lat = attempts[i].coords.lat
            /\ geoRequests[r].lon = attempts[i].coords.lon

\* The first attempt timed out, the second gave a position whose latitude
\* and longitude differ, and the weather request is out.
C11_Witness ==
    /\ Len(attempts) = 2
    /\ attempts[1].kind = "rejected" /\ attempts[1].code = 3
    /\ attempts[2].kind = "position"
    /\ attempts[2].coords.lat # attempts[2].coords.lon
    /\ WeatherRequests # {}

\* C12: once the reverse geocoding has failed, the invocation has gone on:
\* the weather request for the position is issued, the place is labelled
\* 'Current Location', and the weather applied on success carries that label.
C12_ReverseFailureIgnored ==
    reverseResult.kind \in ReverseFailures =>
        /\ geoPc \in {"weather", "idle"}
        /\ Len(geoRequests) = 2
        /\ geoRequests[2] = RequestFor("weather", position)
        /\ locationInfo = DefaultLocationInfo
        /\ (geoPc = "idle" /\ caughtError = NoGeoError) =>
              weatherData.location = DefaultLocationInfo

\* The reverse geocoding answered with an empty array and the weather for
\* 'Current Location' has been applied.
C12_Witness ==
    /\ reverseResult.kind = "empty"
    /\ geoPc = "idle"
    /\ caughtError = NoGeoError
    /\ weatherData.location = DefaultLocationInfo
    /\ cityName = DefaultLocationInfo.name

(***************************************************************************)
(* The weather data client.                                                *)
(***************************************************************************)

\* C13: without an API key every call of a client operation has failed with
\* the credential-missing error and has issued no HTTP request.
C13_NoKeyFailsBeforeRequest ==
    (~hasApiKey /\ clientCall.op \in Operations) =>
        /\ clientResult = ClientError(API_KEY_ERROR_MESSAGE)
        /\ clientHttp = <<>>
        /\ clientPc = "done"
        /\ currentReq.kind # "pending" /\ forecastReq.kind # "pending"

\* getWeatherByCity was called without a key, after a call of another
\* operation.
C13_Witness ==
    /\ ~hasApiKey
    /\ clientCall.op = "getWeatherByCity"
    /\ clientResult = ClientError(API_KEY_ERROR_MESSAGE)
    /\ clientHttp = <<>>

\* C14: without an API key a suggestion search for a text of at least 2
\* characters ends without a failure on the page: once the timer of the
\* burst has fired no suggestion is shown, the searching flag is off, no
\* request is in flight and the page's error is not set.
C14_NoKeySearchDegrades ==
    ~hasApiKey =>
        /\ suggestFlights = <<>>
        /\ error = NoError
        /\ burstFetches = 1 =>
              (searchSuggestions = <<>> /\ ~isSearching /\ timers = NoTimers)

\* "Lon" was typed without a key and its timer has fired.
C14_Witness ==
    /\ ~hasApiKey
    /\ cityName = <<"L", "o", "n">>
    /\ burstFetches = 1
    /\ burstQuery = cityName
    /\ ~isSearching

\* C15: when the geocoding request of searchCities has failed, searchCities
\* has returned the empty list and has thrown nothing.
C15_SearchCitiesSwallowsFailure ==
    (clientCall.op = "searchCities" /\ geocodingReq.kind = "error") =>
        /\ clientPc = "done"
        /\ clientResult = ClientValue(<<>>)

\* The geocoding request of searchCities was answered with status 401.
C15_Witness ==
    /\ clientCall.op = "searchCities"
    /\ geocodingReq = ClientError(API_401_MESSAGE)
    /\ clientResult = ClientValue(<<>>)

WeatherOperations ==
    {"getWeatherData", "getWeatherByCity", "getWeatherByCoordinates"}

Endpoints == {clientHttp[i].endpoint : i \in 1..Len(clientHttp)}

ReturnedWeather ==
    IF clientCall.op = "getWeatherData"
    THEN clientResult.value ELSE clientResult.value.weather

\* C16: getWeatherData sends the current-conditions request and the forecast
\* request in one step, for the same coordinates; it returns a record only
\* when both have succeeded, the record made of both answers; when either
\* has failed it has failed, whatever has become of the other.
C16_WeatherDataAllOrNothing ==
    /\ "weather" \in Endpoints <=> "forecast" \in Endpoints
    /\ \A i \in 1..Len(clientHttp) :
          clientHttp[i].endpoint = "weather" =>
              /\ i < Len(clientHttp)
              /\ clientHttp[i + 1] =
                    [clientHttp[i] EXCEPT !.endpoint = "forecast"]
    /\ (clientCall.op \in WeatherOperations /\ clientResult.kind = "value") =>
          /\ currentReq.kind = "value" /\ forecastReq.kind = "value"
          /\ ReturnedWeather = WeatherRecord(currentReq.value, forecastReq.value)
    /\ (currentReq.kind = "error" \/ forecastReq.kind = "error") =>
          /\ clientPc = "done"
          /\ clientResult.kind = "error"
          /\ clientResult \in {currentReq, forecastReq}

\* The forecast was answered, the current-conditions request failed, and the
\* call has failed with that failure.
C16_Witness ==
    /\ clientCall.op = "getWeatherData"
    /\ forecastReq.kind = "value"
    /\ currentReq.kind = "error"
    /\ clientResult = currentReq

\* The request variable that holds what came of the request of a label.
RequestOf(label) ==
    CASE label = "Geocoding API" -> geocodingReq
      [] label = "Current Weather API" -> currentReq
      [] label = "Forecast API" -> forecastReq

\* C26: a request answered with a status that is not a success has failed:
\* with the authentication error when the status is 401, otherwise with
\* the error '<endpoint> error: <status> - <message>'; an error body that is
\* no JSON is read as an empty one and raises no other error.
C26_StatusDecidesTheError ==
    \A i \in 1..Len(clientResponses) :
        LET label == clientResponses[i].label
            response == clientResponses[i].response
            result == clientResponses[i].result
        IN  response.kind = "status" =>
                /\ RequestOf(label) = result
                /\ result.kind = "error"
                /\ IF response.status = 401
                   THEN result.message = API_401_MESSAGE
                   ELSE result.message =
                           label \o " error: " \o ToString(response.status)
                           \o " - "
                           \o (IF response.errorBody \in {"", "unparsable"}
                               THEN response.statusText
                               ELSE response.errorBody)

\* The forecast request was answered with status 404 and a body that is no
\* JSON.
C26_Witness ==
    \E i \in 1..Len(clientResponses) :
        /\ clientResponses[i].label = "Forecast API"
        /\ clientResponses[i].response.kind = "status"
        /\ clientResponses[i].response.status = 404
        /\ clientResponses[i].response.errorBody = "unparsable"
        /\ forecastReq = ClientError("Forecast API error: 404 - Not Found")

\* C27: when the geocoding lookup of getWeatherByCity has returned no
\* result, the call has failed with the not-found error and no
\* current-conditions or forecast request has been issued; the weather
\* requests of getWeatherByCity are issued only after the geocoding request,
\* once it has returned a location, and for that location.
C27_NotFoundBeforeWeatherRequests ==
    clientCall.op = "getWeatherByCity" =>
        /\ geocodingReq = ClientValue(<<>>) =>
              /\ clientPc = "done"
              /\ clientResult =
                    ClientError("City \"" \o Join(clientCall.text)
                                \o "\" not found")
              /\ Endpoints = {"direct"}
              /\ currentReq.kind = "none" /\ forecastReq.kind = "none"
        /\ (Endpoints \cap {"weather", "forecast"} # {}) =>
              /\ clientHttp[1].endpoint = "direct"
              /\ geocodingReq.kind = "value"
              /\ Len(geocodingReq.value) > 0
              /\ \A i \in 2..Len(clientHttp) :
                    /\ clientHttp[i].lat = geocodingReq.value[1].lat
                    /\ clientHttp[i].lon = geocodingReq.value[1].lon

\* getWeatherByCity was called for a name the geocoding API knows no place
\* of: the call has failed and only the geocoding request went out.
C27_Witness ==
    /\ clientCall.op = "getWeatherByCity"
    /\ geocodingReq = ClientValue(<<>>)
    /\ clientResult.kind = "error"
    /\ clientHttp = <<GeocodingRequest(clientCall.text)>>

(***************************************************************************)
(* The stations view.                                                      *)
(***************************************************************************)

LoadedIds == {stLoad[i].id : i \in 1..Len(stLoad)}

\* C17: the step that ends the load of the stations view leaves the view's
\* error as it was and gives every favorite of the load its entry: the
\* weather of its own answer when its fetch succeeded, the 'no weather'
\* marker when, and only when, its fetch failed.
C17_LoadSurvivesFailedCity ==
    [][(stLoading /\ ~stLoading') =>
          /\ stError' = stError
          /\ {stLoad'[i].id : i \in 1..Len(stLoad')} \subseteq DOMAIN stWeather'
          /\ \A i \in 1..Len(stLoad') :
                LET e == stLoad'[i] IN
                /\ e.settled.kind = "error" <=> stWeather'[e.id] = NoWeather
                /\ e.settled.kind = "value" =>
                      /\ e.settled = StationAnswer(e)
                      /\ stWeather'[e.id] =
                            [kind |-> "weather", temp |-> e.lat,
                             temp_min |-> e.lat - 2, temp_max |-> e.lat + 1]
      ]_vars

\* A load of two favorites has ended: the fetch of the first failed, that of
\* the second succeeded, and no error is set.
C17_Witness ==
    /\ stMounted /\ ~stLoading
    /\ Len(stLoad) = 2
    /\ stLoad[1].settled.kind = "error"
    /\ stLoad[2].settled.kind = "value"
    /\ LoadedIds \subseteq DOMAIN stWeather
    /\ stWeather[stLoad[1].id] = NoWeather
    /\ stWeather[stLoad[2].id].kind = "weather"
    /\ stError = NoStationError

\* C20: from the mount on, the favorites the stations view displays are the
\* persisted ones, same entries in the same order, after every step, a
\* failed add or remove included; and a weather fetch for an added city is
\* issued only in a step after which the persisted list holds that city.
C20_DisplayedIsPersisted ==
    /\ [](stMounted => stFavorites = getFavoriteCities(favStore))
    /\ [][\A city \in stAdds' \ stAdds :
             \E i \in 1..Len(getFavoriteCities(favStore')) :
                getFavoriteCities(favStore')[i] = city]_vars

\* An add has failed at the write, after an earlier add that succeeded and
\* whose weather is still being fetched.
C20_Witness ==
    /\ stMounted
    /\ stError = FavoritesErrorMessage("save_failed")
    /\ stAdds # {}
    /\ Len(stFavorites) >= 1
    /\ stFavorites = getFavoriteCities(favStore)

(***************************************************************************)
(* The primary fetches of the Weather page (SpecPrimary).                  *)
(***************************************************************************)

\* A step in which the fetch of handleSearch, of handleSuggestionClick or of
\* handleCurrentLocation rejects and the handler's catch block runs.
PrimaryFetchFails ==
    SearchFails \/ SuggestionFetchFails \/ LocationWeatherFails

\* C18: when the weather fetch started by handleSearch, handleSuggestionClick
\* or handleCurrentLocation fails, the step records an error for display and
\* leaves the displayed weather data, the stored snapshot, the stored history
\* and the displayed history as they were.
C18_FailedFetchKeepsData ==
    [][PrimaryFetchFails =>
          /\ error' # NoError
          /\ weatherData' = weatherData
          /\ snapStore' = snapStore
          /\ histStore' = histStore
          /\ searchHistory' = searchHistory]_vars

\* A suggestion was clicked, its fetch failed: the error is up, the input
\* holds the suggestion's text and the stored result is still displayed.
C18_Witness ==
    /\ error \in CoordinateFetchErrors
    /\ ~loading
    /\ suggestionFlights = <<>>
    /\ cityName = SuggestionsFor(TypedText)[1].displayName
    /\ weatherData = StoredResult
    /\ snapStore = JSONDocument(StoredResult)

\* A step that re-applies the stored snapshot or in which a fetch of the page
\* rejects.
NoFreshResult ==
    \/ Mount
    \/ HandleVisibilityChange
    \/ DefaultLoadFails
    \/ PrimaryFetchFails

C21_UnparsableReadsAsAbsent ==
    /\ [](/\ (favStore = Unparsable => getFavoriteCities(favStore) = <<>>)
          /\ (histStore = Unparsable
                => readHistoryFromStorage(histStore) = <<>>)
          /\ (snapStore = Unparsable => readSavedWeather(snapStore) = Null))
    /\ [][/\ (favStore = Unparsable /\ favCall' # favCall)
               => /\ favCall'.outcome \in {"ok", "save_failed"}
                  /\ (favCall'.outcome = "ok"
                        => \E id \in Ids :
                              favStore' = JSONStringify(
                                  <<[id |-> id, lat |-> favCall'.lat,
                                     lon |-> favCall'.lon]>>))
          /\ (~mounted /\ mounted')
               => /\ error' = NoError
                  /\ (histStore = Unparsable => searchHistory' = <<>>)
                  /\ (snapStore = Unparsable
                        => /\ weatherData' = Null
                           /\ pendingDefault' = pendingDefault + 1)
          /\ (histStore = Unparsable /\ histStore' # histStore)
               => histStore' = JSONDocument(
                                   <<cityIdentifier(weatherData'.location)>>)
         ]_vars

\* All three keys hold unparsable text: the page has mounted without a
\* history and without weather, its default load is in flight, and an
\* addition passed the duplicate test and failed only at setItem.
C21_Witness ==
    /\ favStore = Unparsable /\ histStore = Unparsable /\ snapStore = Unparsable
    /\ mounted /\ pendingDefault = 1
    /\ searchHistory = <<>> /\ weatherData = Null /\ error = NoError
    /\ favCall.op = "add" /\ favCall.outcome = "save_failed"

(***************************************************************************)
(* Keyboard navigation of the dropdown (SpecKeys).                         *)
(***************************************************************************)

\* C22: with the dropdown open over at least one item, ArrowDown moves the
\* highlight from none or from a shown item to the next shown item and from
\* the last shown item to the first; ArrowUp moves it from a shown item to
\* the one before and from the first to the last.
C22_ArrowsCycleShownItems ==
    [][(DropdownShown /\ ShownItems > 0)
          => /\ (KeyArrowDown /\ highlightedIndex \in -1..(ShownItems - 1))
                   => highlightedIndex' =
                         IF highlightedIndex < ShownItems - 1
                         THEN highlightedIndex + 1 ELSE 0
             /\ (KeyArrowUp /\ highlightedIndex \in 0..(ShownItems - 1))
                   => highlightedIndex' =
                         IF highlightedIndex > 0
                         THEN highlightedIndex - 1 ELSE ShownItems - 1]_vars

\* C23: Enter with highlight i >= 0 starts the fetch of what is shown at i:
\* in typing mode the coordinate fetch for suggestion i and nothing else; in
\* idle mode the current-location lookup for i = 0 and, for i >= 1, a search
\* by the name of recent search i.  Escape closes the dropdown, clears the
\* highlight and starts no fetch.
C23_EnterCommitsShownItem ==
    [][/\ KeyEnter
            => IF TypingMode
               THEN /\ suggestionFlights' =
                          Append(suggestionFlights,
                                 searchSuggestions[highlightedIndex + 1])
                    /\ cityName' =
                          searchSuggestions[highlightedIndex + 1].displayName
                    /\ UNCHANGED <<pendingSearch, geoPc, attempts>>
               ELSE IF highlightedIndex = 0
               THEN /\ geoPc' = "attempt" /\ gettingLocation'
                    /\ attempts' = <<Outstanding(1)>>
                    /\ UNCHANGED <<pendingSearch, suggestionFlights, cityName>>
               ELSE /\ pendingSearch' = pendingSearch + 1
                    /\ cityName' =
                          Trim(SplitFirst(searchHistory[highlightedIndex]))
                    /\ UNCHANGED <<suggestionFlights, geoPc, attempts>>
       /\ KeyEscape
            => /\ ~showHistory' /\ highlightedIndex' = -1
               /\ UNCHANGED <<pendingDefault, pendingSearch, suggestionFlights,
                              geoPc, attempts, loading, gettingLocation,
                              timers, suggestFlights>>
      ]_vars

\* Enter on the second recent search, highlighted with the arrow keys, has
\* started the search for its name.
C23_Witness ==
    /\ pendingSearch = 1 /\ loading
    /\ highlightedIndex = 2
    /\ searchHistory = TwoSearchesStored
    /\ cityName = EarlierResult.location.name

(***************************************************************************)
(* The five-day forecast and the rain chance (SpecForecast).               *)
(***************************************************************************)

\* The calendar day, in the browser's time zone, that an instant falls on.
CalendarDay(instant) == (instant + tz) \div HoursPerDay

\* C24: for every forecast list and every today, the five-day forecast has
\* at most 5 entries, holds no calendar day before today, and its entries
\* are strictly increasing by calendar date, one entry per date.
C24_FiveDayBoundedAndOrdered ==
    fiveDayForecast.done =>
        LET days == fiveDayForecast.days
        IN  /\ Len(days) <= 5
            /\ \A i \in 1..Len(days) :
                  CalendarDay(days[i].date) >= CalendarDay(clock)
            /\ \A i, j \in 1..Len(days) :
                  i < j => CalendarDay(days[i].date)
                              < CalendarDay(days[j].date)

\* A list in descending order with two entries on every day, some of them
\* before today and more than five from today on, east of Greenwich: five
\* days are displayed.
C24_Witness ==
    /\ fiveDayForecast.done
    /\ Len(daily) = 2 * (MaxDay + 1)
    /\ daily[1].dt > daily[2].dt
    /\ tz = 5
    /\ \E i \in 1..Len(daily) : CalendarDay(daily[i].dt) < CalendarDay(clock)
    /\ Cardinality({CalendarDay(daily[i].dt) : i \in 1..Len(daily)}) > 5
    /\ Len(fiveDayForecast.days) = 5

\* The distance of an entry's local hour from 12.
HourDistance(forecast) == Abs(((forecast.dt + tz) % HoursPerDay) - 12)

\* The entries of the forecast list that fall on the calendar day of a date.
EntriesOn(date) ==
    {i \in 1..Len(daily) : CalendarDay(daily[i].dt) = CalendarDay(date)}

\* C28: the representative weather of each day of the five-day forecast is
\* that of the day's entry whose local hour is nearest to 12, and of the
\* first such entry in the forecast list when several are equally near.
C28_WeatherNearestNoonFirstOnTies ==
    fiveDayForecast.done =>
        \A k \in 1..Len(fiveDayForecast.days) :
            LET day == fiveDayForecast.days[k]
                members == EntriesOn(day.date)
            IN  \E i \in members :
                    /\ \A j \in members :
                          \/ HourDistance(daily[i]) < HourDistance(daily[j])
                          \/ /\ HourDistance(daily[i]) = HourDistance(daily[j])
                             /\ i <= j
                    /\ day.weather = daily[i].weather

\* Two entries of one day are equally near to noon and nearer than the
\* day's other entries, the later hour standing first in the list: the
\* day shows the weather of the one that stands first.
C28_Witness ==
    /\ fiveDayForecast.done
    /\ \E i, j \in 1..Len(daily) :
          /\ i < j
          /\ CalendarDay(daily[i].dt) = CalendarDay(daily[j].dt)
          /\ HourDistance(daily[i]) = HourDistance(daily[j])
          /\ daily[i].dt > daily[j].dt
          /\ \A m \in EntriesOn(daily[i].dt) :
                HourDistance(daily[m]) >= HourDistance(daily[i])
          /\ Cardinality(EntriesOn(daily[i].dt)) = 3
          /\ \E k \in 1..Len(fiveDayForecast.days) :
                /\ fiveDayForecast.days[k].date = LocalMidnight(daily[i].dt)
                /\ fiveDayForecast.days[k].weather = daily[i].weather

\* The temperatures, in half degrees, that the entries of a day carry,
\* under main.temp or else under temp.
TemperaturesOn(date) ==
    {IF daily[i].mainTemp.def THEN daily[i].mainTemp.v ELSE daily[i].temp.v :
        i \in {m \in EntriesOn(date) :
                  daily[m].mainTemp.def \/ daily[m].temp.def}}

\* A number of half degrees rounded to whole degrees, halves upwards.
Rounded(t) == CHOOSE r \in (0 - MaxTemp - 1)..(MaxTemp + 1) :
                  2 * r - 1 <= t /\ t < 2 * r + 1

\* C29: for each day of the five-day forecast, minTemp and maxTemp are the
\* rounded minimum and maximum over the temperatures of all the day's
\* entries, zero and negative values included; a day none of whose entries
\* carries a temperature reports 0 for both.
C29_MinMaxOverAllTemperatures ==
    fiveDayForecast.done =>
        \A k \in 1..Len(fiveDayForecast.days) :
            LET day == fiveDayForecast.days[k]
                temps == TemperaturesOn(day.date)
            IN  IF temps = {}
                THEN day.minTemp = 0 /\ day.maxTemp = 0
                ELSE /\ day.minTemp = Rounded(MinOf(temps))
                     /\ day.maxTemp = Rounded(MaxOf(temps))

\* The entries of the forecast list nearest to now.
NearestEntries ==
    {i \in 1..Len(daily) :
        \A j \in 1..Len(daily) :
            Abs(daily[i].dt - clock) <= Abs(daily[j].dt - clock)}

\* What the rain field of the current conditions alone gives.
FromRainField ==
    IF conditions.kind = "current" /\ conditions.rain THEN 10 ELSE 0

\* C30: rainChance takes the forecast entry nearest to now, the first such
\* entry of the list on ties; if that entry carries a pop value, 0
\* included, the result is pop * 100 rounded, otherwise it is 10 when the
\* current conditions carry a rain object and 0 when they do not.  With
\* pop between 0 and 1 the result is an integer between 0 and 100.
C30_RainChanceFromNearestEntry ==
    rainChance.done =>
        /\ rainChance.value \in 0..100
        /\ IF NearestEntries = {}
           THEN rainChance.value = FromRainField
           ELSE LET first == MinOf(NearestEntries)
                    pop == daily[first].pop
                IN  IF pop.def
                    THEN /\ 10 * rainChance.value - 5 <= pop.v
                         /\ pop.v < 10 * rainChance.value + 5
                    ELSE rainChance.value = FromRainField

\* Two entries are equally near to now, the first with pop 0.42 and the
\* second with another pop: the rain chance is 42.
C30_Witness ==
    /\ rainChance.done
    /\ Len(daily) = 2
    /\ Abs(daily[1].dt - clock) = Abs(daily[2].dt - clock)
    /\ daily[1].dt # daily[2].dt
    /\ daily[1].pop = Num(420)
    /\ daily[2].pop = Num(1000)
    /\ conditions.rain
    /\ rainChance.value = 42

(***************************************************************************)
(* Weather icons (SpecIcons).                                              *)
(***************************************************************************)

\* The two characters of a family given by its number.
FamilyCode(n) == <<Digits[(n \div 10) + 1], Digits[(n % 10) + 1]>>

FamiliesWithoutVariants ==
    {FamilyCode(n) : n \in {4, 9, 10, 11, 13, 15, 22, 30, 31, 32, 33, 34, 46,
                            47, 48, 49, 50}}

\* A family followed by d or n.
WellFormedCode(code) ==
    /\ Len(code) = 3
    /\ code[1] \in Range(Digits) /\ code[2] \in Range(Digits)
    /\ code[3] \in {"d", "n"}

\* C25: for a family without day and night variants, the paths of
\* family + 'd' and of family + 'n' both equal the path of the family; for
\* every other well-formed code the path is that of the full code.
C25_VariantsShareOnePath ==
    (iconPath.done /\ WellFormedCode(iconCode)) =>
        IF SubSeq(iconCode, 1, 2) \in FamiliesWithoutVariants
        THEN iconPath.path
                = getWeatherIconPath(SubSeq(iconCode, 1, 2), DEFAULT_FALLBACK)
        ELSE iconPath.path = ICON_DIRECTORY \o iconCode \o ICON_EXTENSION

\* The path of "04n" has been asked for: it is the path of "04".
C25_Witness ==
    /\ iconPath.done
    /\ iconCode = <<"0", "4", "n">>
    /\ iconPath.path = ICON_DIRECTORY \o <<"0", "4">> \o ICON_EXTENSION

\* The entries of the forecast list at or after now.
EntriesFromNow == {i \in 1..Len(daily) : daily[i].dt >= clock}

ClickedSuggestion == SuggestionsFor(TypedText)[1]

EarlierResponse == SuggestionResult(ClickedSuggestion)

\* The response of a fetch has been applied while the fetch of the click,
\* which was issued before every other fetch, still waits: only a search
\* started during that wait can have been answered.
LaterAnsweredFirst == suggestionFlights # <<>> /\ lastFetched # Null

\* C32: two primary fetches can be in flight at once, and the response of the
\* one issued first can be applied after the response of the one issued
\* later; when it is, the weather shown, the text of the input and the stored
\* snapshot become those of the earlier request and replace what the later
\* request had put there.
C32_EarlierResponseAppliedLast ==
    [][\A i \in 1..Len(suggestionFlights) :
          (/\ LaterAnsweredFirst
           /\ suggestionFlights' = RemoveAt(suggestionFlights, i)
           /\ lastFetched' = SuggestionResult(suggestionFlights[i]))
          => /\ weatherData' = SuggestionResult(suggestionFlights[i])
             /\ weatherData' # weatherData
             /\ cityName' = suggestionFlights[i].name
             /\ snapStore' = JSONDocument(SuggestionResult(suggestionFlights[i]))
             /\ snapStore' # snapStore]_vars

\* Both fetches have settled; the history, newest first, holds the place of
\* the click above the place a search resolved with: the search, started
\* after the click, was answered before it, and the page shows, names and
\* stores the place of the click.
C32_Witness ==
    /\ suggestionFlights = <<>> /\ pendingSearch = 0
    /\ Len(searchHistory) = 3
    /\ searchHistory[1] = cityIdentifier(EarlierResponse.location)
    /\ searchHistory[2] # cityIdentifier(StoredResult.location)
    /\ lastFetched = EarlierResponse
    /\ weatherData = EarlierResponse
    /\ cityName = ClickedSuggestion.name
    /\ snapStore = JSONDocument(EarlierResponse)
    /\ ~loading

\* A primary weather fetch of the page is in flight: the default load, a
\* search, the fetch of a clicked suggestion, or the weather request of the
\* current-location lookup.
PrimaryFetchInFlight ==
    \/ pendingDefault > 0
    \/ pendingSearch > 0
    \/ suggestionFlights # <<>>
    \/ geoPc = "weather"

\* C35: the loading flag is true in every state in which a primary weather
\* fetch is in flight; the completion of one fetch does not clear it while
\* another fetch is still outstanding.
C35_LoadingWhileFetchInFlight == PrimaryFetchInFlight => loading

(***************************************************************************)
(* The initial load of the stations view (SpecStations).                   *)
(***************************************************************************)

\* The fetches of the load that have not completed.
LoadOutstanding(entries) ==
    {i \in 1..Len(entries) : entries[i].settled = PendingRequest}

\* C33: the initial load issues the weather fetch of every favorite in the
\* step that starts it, before any of them completes; whatever the order in
\* which they complete, with a result or a failure, the map gets no entry of
\* a favorite of the load, and the loading flag stays set, until the last of
\* them has completed.
C33_LoadJoinsAllFetches ==
    /\ [][(~stMounted /\ stMounted') =>
             LET favorites == getFavoriteCities(favStore) IN
             /\ Len(stLoad') = Len(favorites)
             /\ \A i \in 1..Len(favorites) :
                   /\ stLoad'[i].id = favorites[i].id
                   /\ stLoad'[i].settled = PendingRequest]_vars
    /\ [](LoadOutstanding(stLoad) # {} =>
             /\ stLoading
             /\ LoadedIds \cap DOMAIN stWeather = {})
    /\ [][(stLoading /\ ~stLoading') =>
             /\ LoadOutstanding(stLoad') = {}
             /\ LoadedIds \subseteq DOMAIN stWeather']_vars

\* Of a load of two favorites the second fetch has failed and the first is
\* still out: the view is loading and the map is empty.
C33_Witness ==
    /\ stMounted /\ stLoading
    /\ Len(stLoad) = 2
    /\ stLoad[1].settled = PendingRequest
    /\ stLoad[2].settled.kind = "error"
    /\ stWeather = EmptyMap

\* No fetch of the stations view is outstanding.
StationsQuiet ==
    stMounted /\ LoadOutstanding(stLoad) = {} /\ stAdds = {}

\* The weather fetch for the city of this id, of the load or of an add, has
\* succeeded.
FetchSucceeded(id) ==
    \/ \E i \in 1..Len(stLoad) :
          stLoad[i].id = id /\ stLoad[i].settled.kind = "value"
    \/ \E added \in stAdded : added.id = id /\ added.ok

DisplayedIds == {stFavorites[i].id : i \in 1..Len(stFavorites)}

\* C36: once every outstanding fetch of the stations view has completed,
\* each displayed favorite whose weather fetch succeeded has its weather in
\* the map, and the map has no key for a city that is not displayed; a city
\* added while the initial load was in flight included, for every order of
\* completion.
C36_MapMatchesFavorites ==
    StationsQuiet =>
        /\ \A id \in DisplayedIds :
              FetchSucceeded(id) =>
                  id \in DOMAIN stWeather /\ stWeather[id].kind = "weather"
        /\ DOMAIN stWeather \subseteq DisplayedIds

(***************************************************************************)
(* removeFavoriteCity (SpecFav).                                           *)
(***************************************************************************)

\* C37: removeFavoriteCity with an id that no persisted favorite has raises
\* 'City not found in favorites' and writes nothing; with an id that is
\* present it stores the persisted list without the entries of that id, all
\* of them, the other entries in their order (when localStorage refuses the
\* write, saveFavoriteCities raises its own error and the list stays).
C37_RemoveFiltersById ==
    [][favCall'.op = "remove" =>
          LET id == favCall'.id
              present == \E i \in 1..Len(PersistedFavorites) :
                            PersistedFavorites[i].id = id
              others == SelectSeq(PersistedFavorites,
                                  LAMBDA city : city.id # id)
          IN  /\ ~present =>
                    /\ favCall'.outcome = "not_found"
                    /\ FavoritesErrorMessage(favCall'.outcome)
                           = "City not found in favorites"
                    /\ ~favCall'.wrote
                    /\ favStore' = favStore
              /\ present =>
                    /\ favCall'.outcome \in {"ok", "save_failed"}
                    /\ favCall'.outcome = "ok" =>
                          /\ favCall'.wrote
                          /\ favStore' = JSONStringify(others)
                    /\ favCall'.outcome = "save_failed" =>
                          ~favCall'.wrote /\ favStore' = favStore]_vars

\* A remove has just taken out the entries of its id and left an entry of
\* another id.
C37_Witness ==
    /\ favCall.op = "remove" /\ favCall.outcome = "ok"
    /\ Len(PersistedFavorites) = 1
    /\ PersistedFavorites[1].id # favCall.id

(***************************************************************************)
(* The stations storage helper (SpecStationStore).                         *)
(***************************************************************************)

StoredStations == readStations(stationsItem)

\* The entries of a list whose id is not the given one, in their order.
RECURSIVE OthersInOrder(_, _)
OthersInOrder(list, id) ==
    IF list = <<>> THEN <<>>
    ELSE IF Head(list).id = id THEN OthersInOrder(Tail(list), id)
    ELSE <<Head(list)>> \o OthersInOrder(Tail(list), id)

\* C39: removeStation(id) leaves stored the stations stored before whose id
\* is not id, in their order, and raises no error when no station has the id
\* (the one error is that of a localStorage that refuses the write, and the
\* item then stays); removing twice stores what removing once stores; and
\* addStation followed by removeStation of the added station's id gives back
\* the list stored before when no stored station has that id.
C39_RemoveStationFilters ==
    /\ [][stationCall'.op = "remove" =>
             /\ stationCall'.outcome \in {"ok", "setItem_threw"}
             /\ stationCall'.outcome = "ok" =>
                    /\ stationsItem'.kind = "array"
                    /\ readStations(stationsItem')
                           = OthersInOrder(StoredStations, stationCall'.id)
             /\ stationCall'.outcome = "setItem_threw" =>
                    stationsItem' = stationsItem]_vars
    /\ [](\A id \in Ids :
             LET once == removeStation(stationsItem, id, TRUE).store IN
             removeStation(once, id, TRUE).store = once)
    /\ [](\A station \in Stations :
             (\A i \in 1..Len(StoredStations) :
                  StoredStations[i].id # station.id)
             => LET added == addStation(stationsItem, station, TRUE).store
                IN  readStations(removeStation(added, station.id, TRUE).store)
                        = StoredStations)

\* A remove has gone through and a station of another id is still stored.
C39_Witness ==
    /\ stationCall.op = "remove" /\ stationCall.outcome = "ok"
    /\ Len(StoredStations) >= 1
    /\ \A i \in 1..Len(StoredStations) : StoredStations[i].id # stationCall.id

\* C34: whenever the dropdown is open, the highlighted index is -1 (none) or
\* the position of an item the dropdown shows; arrow keys on an empty list,
\* suggestion responses that come after arrow keys, and the changes between
\* typing mode and idle mode included.
C34_HighlightIsNoneOrShown ==
    DropdownShown => highlightedIndex \in -1..(ShownItems - 1)

(***************************************************************************)
(* The searching flag of the search field (SpecDebounceFair).              *)
(***************************************************************************)

\* C38: when the keystrokes come to an end, a searching flag that is set is
\* cleared later on, whatever keystrokes, cancelled timers and answers came
\* before, given that every due timer runs and every request is answered.
C38_SearchingFlagIsCleared ==
    <>[][~HandleInputChange]_vars => (isSearching ~> ~isSearching)

\* The answer to the request of the last keystroke has cleared the flag:
\* no timer is pending and no request is in flight.
C38_Witness ==
    /\ ~isSearching
    /\ burstKeys >= 1 /\ burstFetches >= 1
    /\ shownFromResponse /\ shownLatest
    /\ timers = NoTimers /\ suggestFlights = <<>>
    /\ Len(Trim(cityName)) >= 2

=============================================================================
